---- MODULE Spec2Model ----
(***************************************************************************)
(* Storage simulation core of Zonnepanelen_check:                          *)
(*   storage_calculator.py  StorageSimulation (battery reservoir)          *)
(*   battery_module.py      BatteryCalculator.calculate                    *)
(*   boiler_module.py       BoilerCalculator.calculate                     *)
(*                                                                         *)
(* Arithmetic is exact.  Battery energies are integers counted in          *)
(* 1/Unit kWh; Unit carries one decimal digit per simulated step so that   *)
(* every multiplication by the efficiency (given in tenths) is exact.      *)
(* Boiler temperatures and energies are normalised fractions <<n, d>>.     *)
(***************************************************************************)
EXTENDS Integers, Sequences, FiniteSets, TLC

\* longest series that is simulated in one run
MaxSteps == 3

\* number of integer units in one kWh
Unit == 100 * (10 ^ MaxSteps)

\* x hundredths of a kWh (or of a kW) in integer units
kWh(x) == x * (Unit \div 100)

Min(a, b) == IF a <= b THEN a ELSE b

Max(a, b) == IF a >= b THEN a ELSE b

Abs(a) == IF a < 0 THEN 0 - a ELSE a

VARIABLES
    sim,      \* the StorageSimulation object (its fields)
    ret,      \* what the last call on sim returned, with the call's arguments
    hist,     \* surpluses (Wh) stepped since construction or the last reset
    saved,    \* the series and get_results() of the run ended by the last reset
    bat,      \* a BatteryCalculator and the frame of its calculate() call
    boil,     \* a BoilerCalculator and the frame of its calculate() call
    mgr       \* a ConfigManager, its file, and a second manager on that file

vars == <<sim, ret, hist, saved, bat, boil, mgr>>

----------------------------------------------------------------------------
(* storage_calculator.py : StorageSimulation                               *)

\* StorageSimulation.__init__ ; efficiency is given in tenths
StorageSimulation(capacity_kwh, efficiency, max_charge_rate, max_discharge_rate, min_soc_percent, max_soc_percent) ==
    [capacity_kwh       |-> capacity_kwh,
     efficiency         |-> efficiency,
     max_charge_rate    |-> max_charge_rate,
     max_discharge_rate |-> max_discharge_rate,
     min_soc_kwh        |-> (capacity_kwh * min_soc_percent) \div 100,
     max_soc_kwh        |-> (capacity_kwh * max_soc_percent) \div 100,
     state_of_charge    |-> (capacity_kwh * min_soc_percent) \div 100,
     charged_energy     |-> 0,
     discharged_energy  |-> 0,
     wasted_energy      |-> 0]

\* surplus_energy_wh / 1000
WhToKWh(surplus_energy_wh) == surplus_energy_wh * (Unit \div 1000)

\* rate (kW) * time_interval_hours, the interval given in quarter hours
RateTimesInterval(rate, quarters) == (rate * quarters) \div 4

\* slip: the remaining room below max_soc_kwh is not taken into account
max_charge_this_step_RateOnly(self, quarters) ==
    RateTimesInterval(self.max_charge_rate, quarters)

max_charge_this_step(self, quarters) ==
    Min(RateTimesInterval(self.max_charge_rate, quarters),
        self.max_soc_kwh - self.state_of_charge)

\* slip: the energy available above min_soc_kwh is not taken into account
max_discharge_this_step_RateOnly(self, quarters) ==
    RateTimesInterval(self.max_discharge_rate, quarters)

max_discharge_this_step(self, quarters) ==
    Min(RateTimesInterval(self.max_discharge_rate, quarters),
        self.state_of_charge - self.min_soc_kwh)

\* min(surplus_energy_kwh, max_charge_this_step)
charge_amount(self, surplus_energy_kwh, quarters) ==
    Min(surplus_energy_kwh, max_charge_this_step(self, quarters))

\* slip: the charging loss is not applied
actual_charge_NoLoss(self, drawn) == drawn

\* charge_amount * self.efficiency
actual_charge(self, drawn) == (drawn * self.efficiency) \div 10

\* slip: the stored amount, not the drawn amount, is subtracted
wasted_of_Stored(self, surplus_energy_kwh, drawn) ==
    surplus_energy_kwh - actual_charge(self, drawn)

\* surplus_energy_kwh - charge_amount : the excess that could not be stored
wasted_of(self, surplus_energy_kwh, drawn) == surplus_energy_kwh - drawn

\* min(energy_needed, max_discharge_this_step)
discharge_amount(self, energy_needed, quarters) ==
    Min(energy_needed, max_discharge_this_step(self, quarters))

\* the returned dictionary: the new charge and the flows of this step
StepFlows(self, surplus_energy_wh, quarters) ==
    LET surplus_energy_kwh == WhToKWh(surplus_energy_wh)
        drawn              == charge_amount(self, surplus_energy_kwh, quarters)
        energy_needed      == Abs(surplus_energy_kwh)
        drawn_out          == discharge_amount(self, energy_needed, quarters)
    IN  IF surplus_energy_kwh > 0
        THEN [state_of_charge |-> self.state_of_charge + actual_charge(self, drawn),
              charged_kwh     |-> drawn,
              discharged_kwh  |-> 0,
              wasted_kwh      |-> wasted_of(self, surplus_energy_kwh, drawn)]
        ELSE IF surplus_energy_kwh < 0
        THEN [state_of_charge |-> self.state_of_charge - drawn_out,
              charged_kwh     |-> 0,
              discharged_kwh  |-> drawn_out,
              wasted_kwh      |-> 0]
        ELSE [state_of_charge |-> self.state_of_charge,
              charged_kwh     |-> 0,
              discharged_kwh  |-> 0,
              wasted_kwh      |-> 0]

\* slip: the total charged counts the stored (post-efficiency) amount
Accumulate_Stored(self, f) ==
    [self EXCEPT !.state_of_charge   = f.state_of_charge,
                 !.charged_energy    = @ + actual_charge(self, f.charged_kwh),
                 !.discharged_energy = @ + f.discharged_kwh,
                 !.wasted_energy     = @ + f.wasted_kwh]

\* the cumulative totals after a step with flows f
Accumulate(self, f) ==
    [self EXCEPT !.state_of_charge   = f.state_of_charge,
                 !.charged_energy    = @ + f.charged_kwh,
                 !.discharged_energy = @ + f.discharged_kwh,
                 !.wasted_energy     = @ + f.wasted_kwh]

\* StorageSimulation.simulate_timestep : the object after the call
simulate_timestep(self, surplus_energy_wh, quarters) ==
    Accumulate(self, StepFlows(self, surplus_energy_wh, quarters))

\* slip: the running totals survive the reset
reset_KeepsTotals(self) ==
    [self EXCEPT !.state_of_charge = self.min_soc_kwh]

\* StorageSimulation.reset
reset(self) ==
    [self EXCEPT !.state_of_charge   = self.min_soc_kwh,
                 !.charged_energy    = 0,
                 !.discharged_energy = 0,
                 !.wasted_energy     = 0]

\* StorageSimulation.get_results ; the percentage is the fraction
\* <<numerator, denominator>>, and dividing by a zero capacity raises
get_results(self) ==
    IF self.capacity_kwh = 0
    THEN [raised |-> "ZeroDivisionError"]
    ELSE [raised               |-> "none",
          total_charged_kwh    |-> self.charged_energy,
          total_discharged_kwh |-> self.discharged_energy,
          total_wasted_kwh     |-> self.wasted_energy,
          final_soc_kwh        |-> self.state_of_charge,
          final_soc_percent    |-> <<self.state_of_charge * 100, self.capacity_kwh>>]

\* the four cumulative fields get_results reads, without the percentage
Totals(self) ==
    [total_charged_kwh    |-> self.charged_energy,
     total_discharged_kwh |-> self.discharged_energy,
     total_wasted_kwh     |-> self.wasted_energy,
     final_soc_kwh        |-> self.state_of_charge]

----------------------------------------------------------------------------
(* battery_module.py : BatteryCalculator                                   *)

RECURSIVE SumSeq(_)
\* Series.sum()
SumSeq(s) == IF s = <<>> THEN 0 ELSE s[1] + SumSeq(Tail(s))

\* one column of a table held as a sequence of rows
Column(rows, name) == [k \in 1..Len(rows) |-> rows[k][name]]

\* a quotient kept as its factors: (product of nums) / (product of dens)
Quot(nums, dens) == [kind |-> "num", nums |-> nums, dens |-> dens]

Zero == Quot(<<0>>, <<1>>)

\* float('inf')
Infinity == [kind |-> "inf"]

\* the result of the numpy division 0.0 / 0.0
NaN == [kind |-> "nan"]

\* date_times.diff().dropna(), in hours
Diffs(data) == [k \in 1..(Len(data) - 1) |-> data[k + 1].ts - data[k].ts]

\* intervals.mode()[0] : the most frequent value, the smallest one on a tie
Mode(s) ==
    LET count(v) == Cardinality({k \in 1..Len(s) : s[k] = v})
        best     == {v \in {s[k] : k \in 1..Len(s)} :
                        \A w \in {s[k] : k \in 1..Len(s)} : count(w) <= count(v)}
    IN  CHOOSE v \in best : \A w \in best : v <= w

\* BatteryCalculator._get_data_interval_hours, in quarter hours
battery_data_interval_quarters(data) ==
    IF Len(data) > 1 THEN 4 * Mode(Diffs(data)) ELSE 1

\* the surplus of one row with a deficit reported as no surplus
get_surplus_energy_Clipped(row) == Max(0, row.produced - row.consumed)

\* StorageCalculator.get_surplus_energy for one row
get_surplus_energy(row) == row.produced - row.consumed

\* slip: the whole deficit is booked as import, the discharge is forgotten
grid_import_kwh_WholeDeficit(surplus_kwh, discharged_kwh) ==
    IF surplus_kwh > 0 THEN 0 ELSE Abs(surplus_kwh)

\* the grid_import_kwh cell of one row
grid_import_kwh(surplus_kwh, discharged_kwh) ==
    IF surplus_kwh > 0 THEN 0 ELSE Abs(surplus_kwh) - discharged_kwh

\* the grid_export_kwh cell of one row
grid_export_kwh(surplus_kwh, wasted_kwh) ==
    IF surplus_kwh > 0 THEN wasted_kwh ELSE 0

\* sim_result['discharged_kwh'] * self.electricity_price
savings_import_eur(self, sim_result) ==
    sim_result.discharged_kwh * self.config.electricity_price

\* slip: the lost feed-in tariff is counted on the stored (post-efficiency)
\* energy
savings_export_eur_Stored(self, sim_result) ==
    0 - actual_charge(self.battery_sim, sim_result.charged_kwh) * self.config.feed_in_tariff

\* -sim_result['charged_kwh'] * self.feed_in_tariff
savings_export_eur(self, sim_result) ==
    0 - sim_result.charged_kwh * self.config.feed_in_tariff

\* the row written by one pass of the loop of calculate(); money is counted
\* in cents per unit of energy
ResultRow(self, row) ==
    LET surplus_energy_wh == get_surplus_energy(row)
        surplus_kwh       == WhToKWh(surplus_energy_wh)
        sim_result        == StepFlows(self.battery_sim, surplus_energy_wh, self.interval)
        savings_import    == savings_import_eur(self, sim_result)
        savings_export    == savings_export_eur(self, sim_result)
    IN  [timestamp          |-> row.ts,
         surplus_energy_wh  |-> surplus_energy_wh,
         surplus_energy_kwh |-> surplus_kwh,
         before_kwh         |-> self.battery_sim.state_of_charge,
         battery_state_kwh  |-> sim_result.state_of_charge,
         charged_kwh        |-> sim_result.charged_kwh,
         discharged_kwh     |-> sim_result.discharged_kwh,
         wasted_kwh         |-> sim_result.wasted_kwh,
         grid_import_kwh    |-> grid_import_kwh(surplus_kwh, sim_result.discharged_kwh),
         grid_export_kwh    |-> grid_export_kwh(surplus_kwh, sim_result.wasted_kwh),
         savings_import_eur |-> savings_import,
         savings_export_eur |-> savings_export,
         total_savings_eur  |-> savings_import + savings_export]

\* (timestamps.max() - timestamps.min()).days
data_days(data) ==
    LET ts == {data[k].ts : k \in 1..Len(data)}
        hi == CHOOSE t \in ts : \A u \in ts : u <= t
        lo == CHOOSE t \in ts : \A u \in ts : t <= u
    IN  (hi - lo) \div 24

\* the self-consumption percentage; the operands are numpy floats, so a zero
\* total consumption gives nan or an infinity instead of raising
self_consumption(total_consumption_kwh, imported_kwh) ==
    IF total_consumption_kwh # 0
    THEN Quot(<<total_consumption_kwh - imported_kwh, 100>>, <<total_consumption_kwh>>)
    ELSE IF total_consumption_kwh - imported_kwh = 0 THEN NaN ELSE Infinity

\* Timestamps count hours from Sunday 2024-09-29 00:00, so that day 1 is a
\* Monday and day 2 is the first of October.

\* timestamp.dt.date, as a day number
date(ts) == ts \div 24

\* timestamp.dt.to_period('W').dt.start_time : the Monday of the week
week_start(ts) == date(ts) - ((date(ts) + 6) % 7)

\* timestamp.dt.to_period('M').dt.start_time : the first day of the month
month_start(ts) ==
    IF date(ts) < 2 THEN 0 - 28
    ELSE IF date(ts) < 33 THEN 2
    ELSE IF date(ts) < 63 THEN 33
    ELSE 63

\* df['period'] of _create_time_aggregation
period_of(period, ts) ==
    CASE period = "daily"   -> date(ts)
      [] period = "weekly"  -> week_start(ts)
      [] period = "monthly" -> month_start(ts)

\* slip: a row replaces the rows already collected for its period
groupby_LastRow(df, period) ==
    [key \in {period_of(period, df[k].timestamp) : k \in 1..Len(df)} |->
        <<df[CHOOSE k \in 1..Len(df) :
                /\ period_of(period, df[k].timestamp) = key
                /\ \A j \in (k + 1)..Len(df) : period_of(period, df[j].timestamp) # key]>>]

RECURSIVE groupby(_, _)
\* df.groupby('period') : the rows of each period, collected row by row
groupby(df, period) ==
    IF df = <<>> THEN <<>>
    ELSE LET before == groupby(SubSeq(df, 1, Len(df) - 1), period)
             row    == df[Len(df)]
             key    == period_of(period, row.timestamp)
         IN  IF key \in DOMAIN before
             THEN [before EXCEPT ![key] = Append(@, row)]
             ELSE (key :> <<row>>) @@ before

\* the group keys in the ascending order in which groupby reports them
SortedKeys(keys) ==
    [i \in 1..Cardinality(keys) |->
        CHOOSE key \in keys : Cardinality({other \in keys : other < key}) = i - 1]

\* slip: the infinite and undefined quotients are not replaced by 0
RatioOrZero_NoReplace(a, b) ==
    IF b = 0 THEN (IF a = 0 THEN NaN ELSE Infinity) ELSE Quot(<<a, 100>>, <<b>>)

\* (a / b * 100).replace([np.inf, -np.inf], 0).fillna(0)
RatioOrZero(a, b) == IF b = 0 THEN Zero ELSE Quot(<<a, 100>>, <<b>>)

battery_agg_columns ==
    {"surplus_energy_kwh", "charged_kwh", "discharged_kwh", "wasted_kwh",
     "grid_import_kwh", "grid_export_kwh", "savings_import_eur",
     "savings_export_eur", "total_savings_eur"}

\* one row of agg_df: the sums of a group and the two derived ratios
BatteryAggRow(key, group) ==
    [c \in battery_agg_columns |-> SumSeq(Column(group, c))]
        @@ [period               |-> key,
            storage_utilization  |->
                RatioOrZero(SumSeq(Column(group, "charged_kwh")),
                            SumSeq(Column(group, "surplus_energy_kwh"))),
            round_trip_efficiency |->
                RatioOrZero(SumSeq(Column(group, "discharged_kwh")),
                            SumSeq(Column(group, "charged_kwh")))]

\* the rows of agg_df, given the groups
BatteryAggregated(groups, keys) ==
    [i \in 1..Len(keys) |-> BatteryAggRow(keys[i], groups[keys[i]])]

\* BatteryCalculator._create_time_aggregation
battery_create_time_aggregation(df, period) ==
    IF period \in {"daily", "weekly", "monthly"}
    THEN BatteryAggregated(groupby(df, period), SortedKeys(DOMAIN groupby(df, period)))
    ELSE <<>>

\* slip: the savings of the data period are reported as the annual savings
annual_savings_NotAnnualised(total_savings, days) ==
    IF days > 0 THEN Quot(<<total_savings>>, <<1>>) ELSE Zero

\* annual_savings = total_savings * (365 / data_days) if data_days > 0 else 0
annual_savings(total_savings, days) ==
    IF days > 0 THEN Quot(<<total_savings, 365>>, <<days>>) ELSE Zero

\* the dictionary stored in self.results at the end of calculate()
Results(self) ==
    LET rows                  == self.rows
        cfg                   == self.config
        sim_results           == get_results(self.battery_sim)
        total_surplus_kwh     == SumSeq(Column(rows, "surplus_energy_kwh"))
        total_charged_kwh     == sim_results.total_charged_kwh
        total_discharged_kwh  == sim_results.total_discharged_kwh
        total_savings         == SumSeq(Column(rows, "total_savings_eur"))
        total_consumption_kwh == WhToKWh(SumSeq(Column(self.data, "consumed")))
        imported              == SumSeq(Column(rows, "grid_import_kwh"))
        would_be_imported     == imported + total_discharged_kwh
        days                  == data_days(self.data)
        cost                  == <<cfg.installation_cost, 100, Unit>>
        annual_positive       == days > 0 /\ total_savings > 0
        daily_cycles_positive == days > 0 /\ self.total_discharged > 0
        years_to_cycle_limit  ==
            IF daily_cycles_positive
            THEN Quot(<<cfg.expected_cycles, cfg.capacity, days>>,
                      <<self.total_discharged, 365>>)
            ELSE Infinity
    IN  [total_surplus_kwh    |-> total_surplus_kwh,
         total_charged_kwh    |-> total_charged_kwh,
         total_discharged_kwh |-> total_discharged_kwh,
         total_wasted_kwh     |-> sim_results.total_wasted_kwh,
         import_savings_eur   |-> SumSeq(Column(rows, "savings_import_eur")),
         export_losses_eur    |-> SumSeq(Column(rows, "savings_export_eur")),
         total_savings_eur    |-> total_savings,
         storage_utilization_percent |->
             IF total_surplus_kwh > 0
             THEN Quot(<<total_charged_kwh, 100>>, <<total_surplus_kwh>>)
             ELSE Zero,
         self_consumption_with_battery_percent |->
             self_consumption(total_consumption_kwh, imported),
         self_consumption_without_battery_percent |->
             self_consumption(total_consumption_kwh, would_be_imported),
         daily_agg            |-> battery_create_time_aggregation(rows, "daily"),
         weekly_agg           |-> battery_create_time_aggregation(rows, "weekly"),
         monthly_agg          |-> battery_create_time_aggregation(rows, "monthly"),
         final_soc_percent    |-> sim_results.final_soc_percent,
         cycle_count          |-> self.cycle_count,
         roi_metrics |->
            [daily_savings_eur |->
                 IF days > 0 THEN Quot(<<total_savings>>, <<days>>) ELSE Zero,
             annual_savings_eur |-> annual_savings(total_savings, days),
             installation_cost_eur |-> cfg.installation_cost,
             payback_years |->
                 IF annual_positive
                 THEN Quot(cost \o <<days>>, <<total_savings, 365>>)
                 ELSE Infinity,
             roi_percent |->
                 IF days > 0 /\ cfg.installation_cost > 0
                 THEN Quot(<<total_savings, 365, 100>>, <<days>> \o cost)
                 ELSE Zero,
             estimated_lifetime_years |->
                 IF cfg.expected_cycles > 0
                 THEN [kind |-> "min", of |-> <<years_to_cycle_limit, cfg.expected_lifetime>>]
                 ELSE Quot(<<cfg.expected_lifetime>>, <<1>>),
             daily_cycles |->
                 IF cfg.expected_cycles > 0 /\ days > 0
                 THEN Quot(<<self.total_discharged>>, <<cfg.capacity, days>>)
                 ELSE Zero],
         annual_projection |->
            [charged_kwh |->
                 IF days > 0 THEN Quot(<<total_charged_kwh, 365>>, <<days>>) ELSE Zero,
             discharged_kwh |->
                 IF days > 0 THEN Quot(<<total_discharged_kwh, 365>>, <<days>>) ELSE Zero]]

----------------------------------------------------------------------------
(* A caller that owns one StorageSimulation: it constructs it, steps it    *)
(* over a series with one interval length, resets it and steps it again.   *)

Capacities == {0, 150, 500}            \* hundredths of a kWh

Efficiencies == {5, 9, 10}             \* tenths

Rates == {100, 360}                    \* hundredths of a kW

SocBounds == {<<0, 100>>, <<10, 90>>}  \* <<min_soc_percent, max_soc_percent>>

Intervals == {1, 4}                    \* quarter hours

SurplusWh == {-500, 0, 1000, 1500, 2500}

NoCall == [op |-> "none"]

NoRun == [series |-> <<>>, made |-> FALSE]

\* no BatteryCalculator exists while a bare StorageSimulation is exercised
NoCalculator == [pc |-> "absent"]

\* no ConfigManager has been constructed
NoManager == [pc |-> "absent"]

\* no StorageSimulation exists outside a calculate() call
NoSimulation == [obj |-> "absent"]

Init ==
    /\ \E c \in Capacities, e \in Efficiencies, r \in Rates, b \in SocBounds, q \in Intervals :
          sim = [obj      |-> StorageSimulation(kWh(c), e, kWh(r), kWh(r), b[1], b[2]),
                 quarters |-> q]
    /\ ret = NoCall
    /\ hist = <<>>
    /\ saved = NoRun
    /\ mgr = NoManager
    /\ bat = NoCalculator
    /\ boil = NoCalculator

\* after a reset the caller first replays the series of the run it ended
Replays(wh) ==
    Len(hist) < Len(saved.series) => wh = saved.series[Len(hist) + 1]

SimulateTimestep(wh) ==
    /\ Len(hist) < MaxSteps
    /\ Replays(wh)
    /\ sim' = [sim EXCEPT !.obj = simulate_timestep(sim.obj, wh, sim.quarters)]
    /\ ret' = [op                 |-> "simulate_timestep",
               surplus_energy_kwh |-> WhToKWh(wh),
               before             |-> sim.obj.state_of_charge,
               out                |-> StepFlows(sim.obj, wh, sim.quarters)]
    /\ hist' = Append(hist, wh)
    /\ UNCHANGED <<saved, bat, boil, mgr>>

Reset ==
    /\ sim' = [sim EXCEPT !.obj = reset(sim.obj)]
    /\ ret' = [op |-> "reset"]
    /\ hist' = <<>>
    /\ saved' = [series |-> hist, made |-> TRUE, totals |-> Totals(sim.obj)]
    /\ UNCHANGED <<bat, boil, mgr>>

Next ==
    \/ \E wh \in SurplusWh : SimulateTimestep(wh)
    \/ Reset

Spec == Init /\ [][Next]_vars

----------------------------------------------------------------------------
(* Properties of StorageSimulation, checked under Spec                     *)

Stepped == ret.op = "simulate_timestep"

\* C1: after every simulate_timestep call (and in every other state) the
\* state of charge lies between min_soc_kwh and max_soc_kwh
C1_ChargeWithinBounds ==
    /\ sim.obj.min_soc_kwh <= sim.obj.state_of_charge
    /\ sim.obj.state_of_charge <= sim.obj.max_soc_kwh

\* a step whose surplus exceeded the room left: the charge ends exactly at
\* the max bound of a non-empty reservoir
C1_Witness ==
    /\ Stepped
    /\ ret.out.wasted_kwh > 0
    /\ sim.obj.state_of_charge = sim.obj.max_soc_kwh
    /\ sim.obj.max_soc_kwh > sim.obj.min_soc_kwh

\* C2: in a step with positive surplus the returned charged_kwh plus the
\* returned wasted_kwh equals the surplus in kWh
C2_ChargedPlusWasted ==
    (Stepped /\ ret.surplus_energy_kwh > 0)
        => ret.out.charged_kwh + ret.out.wasted_kwh = ret.surplus_energy_kwh

\* a step with positive surplus that was partly charged (with a charging
\* loss) and partly wasted, on a partly filled reservoir
C2_Witness ==
    /\ Stepped
    /\ ret.surplus_energy_kwh > 0
    /\ ret.out.charged_kwh > 0
    /\ ret.out.wasted_kwh > 0
    /\ sim.obj.efficiency < 10
    /\ ret.before > sim.obj.min_soc_kwh

C5_ResetThenSameSeries ==
    /\ ret.op = "reset"
          => /\ sim.obj.state_of_charge = sim.obj.min_soc_kwh
             /\ sim.obj.charged_energy = 0
             /\ sim.obj.discharged_energy = 0
             /\ sim.obj.wasted_energy = 0
    /\ (saved.made /\ hist = saved.series) => Totals(sim.obj) = saved.totals

\* the second run of a full-length series that charged, wasted and discharged
C5_Witness ==
    /\ saved.made
    /\ hist = saved.series
    /\ Len(hist) = MaxSteps
    /\ sim.obj.charged_energy > 0
    /\ sim.obj.discharged_energy > 0
    /\ sim.obj.wasted_energy > 0

\* the reservoir of the example: 1.5 kWh, efficiency 0.9, 1.0 kW, bounds
\* 0..100 %, one-hour steps
ExampleReservoir ==
    /\ sim.obj.capacity_kwh = kWh(150)
    /\ sim.obj.efficiency = 9
    /\ sim.obj.max_charge_rate = kWh(100)
    /\ sim.obj.min_soc_kwh = 0
    /\ sim.obj.max_soc_kwh = kWh(150)
    /\ sim.quarters = 4

\* C6: the example reservoir stepped over [+1.5, +2.5, -0.5] kWh ends with
\* total charged 1.5 kWh, total discharged 0.5 kWh and charge 0.85 kWh
C6_ExampleTotals ==
    (ExampleReservoir /\ hist = <<1500, 2500, -500>>)
        => /\ sim.obj.charged_energy = kWh(150)
           /\ sim.obj.discharged_energy = kWh(50)
           /\ sim.obj.state_of_charge = kWh(85)

\* C7: state_of_charge = min_soc_kwh + efficiency x total charged - total
\* discharged, total charged being the drawn (pre-efficiency) amount
C7_EnergyBalance ==
    10 * (sim.obj.state_of_charge - sim.obj.min_soc_kwh + sim.obj.discharged_energy)
        = sim.obj.efficiency * sim.obj.charged_energy

\* the run of the test: capacity 5, bounds 10..90 %, efficiency 0.9, 3.6 kW,
\* +1, +1, -0.5 kWh in one-hour steps gives charge 1.8, charged 2.0,
\* discharged 0.5
C7_Witness ==
    /\ sim.obj.capacity_kwh = kWh(500)
    /\ sim.obj.min_soc_kwh = kWh(50)
    /\ sim.obj.efficiency = 9
    /\ sim.obj.max_charge_rate = kWh(360)
    /\ sim.quarters = 4
    /\ hist = <<1000, 1000, -500>>
    /\ sim.obj.state_of_charge = kWh(180)
    /\ sim.obj.charged_energy = kWh(200)
    /\ sim.obj.discharged_energy = kWh(50)

\* C8: a reservoir of capacity 0 never charges or discharges: every step
\* returns charged 0 and discharged 0, a positive surplus is all wasted and
\* a negative surplus is all left unmet
C8_ZeroCapacity ==
    (Stepped /\ sim.obj.capacity_kwh = 0)
        => /\ ret.out.charged_kwh = 0
           /\ ret.out.discharged_kwh = 0
           /\ ret.out.wasted_kwh = Max(ret.surplus_energy_kwh, 0)
           /\ Abs(Min(ret.surplus_energy_kwh, 0)) - ret.out.discharged_kwh
                 = Abs(Min(ret.surplus_energy_kwh, 0))
           /\ sim.obj.state_of_charge = 0
           /\ sim.obj.charged_energy = 0
           /\ sim.obj.discharged_energy = 0

\* a zero-capacity reservoir that has seen a surplus and then a deficit
C8_Witness ==
    /\ Stepped
    /\ sim.obj.capacity_kwh = 0
    /\ Len(hist) >= 2
    /\ ret.surplus_energy_kwh < 0
    /\ sim.obj.wasted_energy > 0

\* every multiplication by the efficiency was exact
ExactArithmetic ==
    Stepped => (ret.out.charged_kwh * sim.obj.efficiency) % 10 = 0

----------------------------------------------------------------------------
(* A caller that builds one BatteryCalculator on a table handed over by    *)
(* the ingestion step and calls calculate(); each pass of the loop over    *)
(* the rows is one step.                                                   *)

BatteryCapacities == {0, 150, 500}     \* hundredths of a kWh

BatteryEfficiencies == {9, 10}         \* tenths

InstallationCosts == {0, 5000}         \* EUR

ExpectedCycles == {0, 3650}

BatteryConfigs ==
    [capacity           : {kWh(c) : c \in BatteryCapacities},
     efficiency         : BatteryEfficiencies,
     max_charge_rate    : {kWh(100)},
     max_discharge_rate : {kWh(100)},
     min_soc            : {10},
     max_soc            : {90},
     installation_cost  : InstallationCosts,
     expected_lifetime  : {10},
     expected_cycles    : ExpectedCycles,
     electricity_price  : {22},
     feed_in_tariff     : {9}]

\* hours between two consecutive rows of the table
Deltas == {1, 24}

\* <<Energy Produced (Wh), Energy Consumed (Wh)>> of a row
Readings == {<<0, 2000>>, <<500, 500>>, <<1500, 500>>, <<2500, 0>>}

RECURSIVE SeriesFrom(_, _, _)
\* the tables of n rows in ascending time order, the first row at hour start;
\* label is the index label of the row (pandas counts from 0, here from 1)
SeriesFrom(start, readings, n) ==
    IF n = 0 THEN {<<>>}
    ELSE IF n = 1
    THEN {<<[ts |-> start, produced |-> r[1], consumed |-> r[2], label |-> 1]>> :
             r \in readings}
    ELSE {Append(s, [ts |-> s[n - 1].ts + d, produced |-> r[1], consumed |-> r[2],
                     label |-> n]) :
             s \in SeriesFrom(start, readings, n - 1), d \in Deltas, r \in readings}

\* result_df.loc[i, ...] : the row whose index label is i
Loc(df, i) == df[CHOOSE k \in 1..Len(df) : df[k].label = i]

Tables == UNION {SeriesFrom(0, Readings, n) : n \in 0..MaxSteps}

\* self.results before calculate() has stored a result
None == [kind |-> "None"]

\* self.data is None or len(self.data) == 0
no_data(self) == self.data_is_none \/ Len(self.data) = 0

\* slip: a result that is still None is formatted all the same
get_summary_Unguarded(self) == "TypeError"

\* get_summary() once calculate() has returned: empty while self.results is
\* None, the formatted metrics otherwise
get_summary(self) == IF self.results = None THEN "empty" ELSE "formatted"

\* BatteryCalculator.__init__ ; data_is_none tells the absent series (None)
\* from an empty table
BatteryCalculator(data, config) ==
    [data             |-> data,
     data_is_none     |-> FALSE,
     summary          |-> "not called",
     config           |-> config,
     results          |-> None,
     pc               |-> "constructed",
     raised           |-> "none",
     interval         |-> 0,
     battery_sim      |-> NoSimulation,
     rows             |-> <<>>,
     i                |-> 0,
     total_discharged |-> 0,
     cycle_count      |-> Zero]

InitBattery ==
    /\ sim = NoSimulation
    /\ ret = NoCall
    /\ hist = <<>>
    /\ saved = NoRun
    /\ mgr = NoManager
    /\ boil = NoCalculator
    /\ \E data \in Tables, config \in BatteryConfigs :
          bat = BatteryCalculator(data, config)

\* slip: the simulation object of an earlier call is used again
battery_calculate_enter_KeepSimulation(self) ==
    IF no_data(self)
    THEN [self EXCEPT !.pc = "returned", !.raised = "none"]
    ELSE [self EXCEPT
             !.pc = "loop",
             !.raised = "none",
             !.i = 1,
             !.interval = battery_data_interval_quarters(self.data),
             !.battery_sim = IF self.battery_sim = NoSimulation
                             THEN StorageSimulation(self.config.capacity,
                                      self.config.efficiency,
                                      self.config.max_charge_rate,
                                      self.config.max_discharge_rate,
                                      self.config.min_soc, self.config.max_soc)
                             ELSE self.battery_sim,
             !.rows = <<>>,
             !.total_discharged = 0,
             !.cycle_count = Zero]

\* BatteryCalculator.calculate up to the loop: the empty-data return, and
\* the locals every call creates: the interval, a new simulation object, an
\* empty result table, cycle_count = 0 and total_discharged = 0
battery_calculate_enter(self) ==
    IF no_data(self)
    THEN [self EXCEPT !.pc = "returned", !.raised = "none"]
    ELSE [self EXCEPT
             !.pc = "loop",
             !.raised = "none",
             !.i = 1,
             !.interval = battery_data_interval_quarters(self.data),
             !.battery_sim = StorageSimulation(self.config.capacity,
                                 self.config.efficiency,
                                 self.config.max_charge_rate,
                                 self.config.max_discharge_rate,
                                 self.config.min_soc, self.config.max_soc),
             !.rows = <<>>,
             !.total_discharged = 0,
             !.cycle_count = Zero]

\* the first call of calculate() on a calculator, up to the loop
CalculateEnter ==
    /\ bat.pc = "constructed"
    /\ bat' = battery_calculate_enter(bat)
    /\ UNCHANGED <<sim, ret, hist, saved, boil, mgr>>

\* one pass of the loop; the cycle count divides by the capacity, and both
\* operands are plain Python numbers, so a zero capacity raises
CalculateRow ==
    /\ bat.pc = "loop"
    /\ bat.i <= Len(bat.data)
    /\ LET row        == ResultRow(bat, Loc(bat.data, bat.i))
           discharged == bat.total_discharged + row.discharged_kwh
           stepped    == [bat EXCEPT
                !.battery_sim = simulate_timestep(bat.battery_sim,
                                    row.surplus_energy_wh, bat.interval),
                !.rows = Append(bat.rows, row),
                !.total_discharged = discharged]
       IN  IF bat.config.capacity = 0
           THEN bat' = [stepped EXCEPT !.pc = "raised", !.raised = "ZeroDivisionError"]
           ELSE bat' = [stepped EXCEPT
                    !.i = bat.i + 1,
                    !.cycle_count = Quot(<<discharged>>, <<bat.config.capacity>>)]
    /\ UNCHANGED <<sim, ret, hist, saved, boil, mgr>>

\* calculate() after the loop: get_results(), the totals and the metrics
CalculateFinish ==
    /\ bat.pc = "loop"
    /\ bat.i > Len(bat.data)
    /\ IF get_results(bat.battery_sim).raised # "none"
       THEN bat' = [bat EXCEPT !.pc = "raised",
                               !.raised = get_results(bat.battery_sim).raised]
       ELSE bat' = [bat EXCEPT !.pc = "returned", !.results = Results(bat)]
    /\ UNCHANGED <<sim, ret, hist, saved, boil, mgr>>

NextBattery ==
    \/ CalculateEnter
    \/ CalculateRow
    \/ CalculateFinish

SpecBattery == InitBattery /\ [][NextBattery]_vars

----------------------------------------------------------------------------
(* Properties of BatteryCalculator.calculate, checked under SpecBattery    *)

\* C3: in every step with negative surplus discharged = min(|surplus|,
\* max_discharge_rate x duration, pre-step charge - min bound), the charge
\* falls by exactly that amount, wasted is 0 and the recorded grid import is
\* |surplus| - discharged, which is never negative
C3_DischargeStep ==
    bat.pc \in {"loop", "returned", "raised"} =>
        \A k \in 1..Len(bat.rows) :
            LET row    == bat.rows[k]
                needed == Abs(row.surplus_energy_kwh)
                drawn  == Min(needed,
                              Min((bat.config.max_discharge_rate * bat.interval) \div 4,
                                  row.before_kwh - bat.battery_sim.min_soc_kwh))
            IN  row.surplus_energy_kwh < 0 =>
                    /\ row.discharged_kwh = drawn
                    /\ row.battery_state_kwh = row.before_kwh - drawn
                    /\ row.wasted_kwh = 0
                    /\ row.charged_kwh = 0
                    /\ row.grid_import_kwh = needed - drawn
                    /\ row.grid_import_kwh >= 0

\* a deficit row served partly from the battery (the battery ran down to
\* its min bound) and partly from the grid
C3_Witness ==
    /\ bat.pc = "returned"
    /\ bat.results # None
    /\ \E k \in 1..Len(bat.rows) :
          /\ bat.rows[k].surplus_energy_kwh < 0
          /\ bat.rows[k].discharged_kwh > 0
          /\ bat.rows[k].grid_import_kwh > 0
          /\ bat.rows[k].battery_state_kwh = bat.battery_sim.min_soc_kwh

\* the configuration or the data is degenerate
Degenerate ==
    \/ bat.config.capacity = 0
    \/ bat.config.installation_cost = 0
    \/ data_days(bat.data) = 0
    \/ SumSeq([k \in 1..Len(bat.data) |-> get_surplus_energy(bat.data[k])]) = 0
    \/ SumSeq(Column(bat.data, "consumed")) = 0

\* a metric that is 0, an ordinary number or the infinite sentinel
Defined(m) == m.kind \in {"num", "inf", "min"}

\* C9: calculate() on a non-empty series with a degenerate parameter
\* completes, raising no division by zero, and every metric it reports is a
\* number or the infinite-payback sentinel
C9_DegenerateCompletes ==
    (Len(bat.data) > 0 /\ Degenerate /\ bat.pc \in {"returned", "raised"})
        => /\ bat.pc = "returned"
           /\ bat.raised = "none"
           /\ Defined(bat.results.storage_utilization_percent)
           /\ Defined(bat.results.self_consumption_with_battery_percent)
           /\ Defined(bat.results.self_consumption_without_battery_percent)
           /\ Defined(bat.results.roi_metrics.payback_years)
           /\ Defined(bat.results.roi_metrics.roi_percent)
           /\ Defined(bat.results.roi_metrics.daily_cycles)

\* C16: in every row import savings = discharged x electricity price,
\* export loss = charged x feed-in tariff (charged being the amount drawn
\* before the charging loss; the code stores the loss with a minus sign) and
\* total savings = import savings - export loss; the reported totals are the
\* sums of the per-row values
C16_Savings ==
    /\ bat.pc \in {"loop", "returned", "raised"} =>
          \A k \in 1..Len(bat.rows) :
              LET row == bat.rows[k]
              IN  /\ row.savings_import_eur = row.discharged_kwh * bat.config.electricity_price
                  /\ 0 - row.savings_export_eur = row.charged_kwh * bat.config.feed_in_tariff
                  /\ row.total_savings_eur
                        = row.savings_import_eur - row.charged_kwh * bat.config.feed_in_tariff
                  /\ 10 * (row.battery_state_kwh - row.before_kwh)
                        = row.charged_kwh * bat.config.efficiency - 10 * row.discharged_kwh
    /\ (bat.pc = "returned" /\ bat.results # None) =>
          /\ bat.results.import_savings_eur = SumSeq(Column(bat.rows, "savings_import_eur"))
          /\ bat.results.export_losses_eur = SumSeq(Column(bat.rows, "savings_export_eur"))
          /\ bat.results.total_savings_eur = SumSeq(Column(bat.rows, "total_savings_eur"))
          /\ bat.results.import_savings_eur
                = bat.results.total_discharged_kwh * bat.config.electricity_price
          /\ 0 - bat.results.export_losses_eur
                = bat.results.total_charged_kwh * bat.config.feed_in_tariff
          /\ bat.results.total_savings_eur
                = bat.results.import_savings_eur + bat.results.export_losses_eur

\* a 1.5 kWh battery with efficiency 0.9, bounds 10..90 % and 1 kW rates
\* over rows +1.0, +2.5 and -2.0 kWh one hour apart: it draws 1.0 and then
\* 0.3 kWh (the room left) and gives back 1.0 kWh
C16_Witness ==
    /\ bat.pc = "returned"
    /\ bat.results # None
    /\ bat.config.capacity = kWh(150)
    /\ bat.config.efficiency = 9
    /\ Column(bat.rows, "surplus_energy_wh") = <<1000, 2500, -2000>>
    /\ bat.interval = 4
    /\ bat.results.import_savings_eur = kWh(100) * 22
    /\ bat.results.export_losses_eur = 0 - kWh(130) * 9
    /\ bat.results.total_savings_eur = kWh(100) * 22 - kWh(130) * 9

----------------------------------------------------------------------------
(* Exact fractions <<numerator, denominator>>, normalised, denominator > 0 *)

RECURSIVE GCD(_, _)
GCD(a, b) == IF b = 0 THEN a ELSE GCD(b, a % b)

Frac(n, d) ==
    LET g == GCD(Abs(n), Abs(d))
        k == IF d < 0 THEN 0 - g ELSE g
    IN  <<n \div k, d \div k>>

\* x[1] / x[2] + y[1] / y[2] over the least common denominator
FAdd(x, y) ==
    LET l == (x[2] \div GCD(x[2], y[2])) * y[2]
    IN  Frac(x[1] * (l \div x[2]) + y[1] * (l \div y[2]), l)

FSub(x, y) == FAdd(x, <<0 - y[1], y[2]>>)

\* the product, common factors cancelled before multiplying
FMul(x, y) ==
    LET a == Frac(x[1], y[2])
        b == Frac(y[1], x[2])
    IN  Frac(a[1] * b[1], a[2] * b[2])

FDiv(x, y) == FMul(x, Frac(y[2], y[1]))

FLe(x, y) == FSub(x, y)[1] <= 0

FLt(x, y) == FSub(x, y)[1] < 0

FMin(x, y) == IF FLe(x, y) THEN x ELSE y

FMax(x, y) == IF FLe(y, x) THEN x ELSE y

FZero == <<0, 1>>

----------------------------------------------------------------------------
(* boiler_module.py : BoilerCalculator                                     *)

\* self.specific_heat_capacity = 0.00116 kWh/L/degree
specific_heat_capacity == Frac(116, 100000)

\* BoilerCalculator._default_usage_profile, in hundredths of the daily usage
_default_usage_profile ==
    [h \in {5, 6, 7, 8, 9, 12, 17, 18, 19, 20, 21, 22} |->
        CASE h = 6 -> 15
          [] h = 7 -> 20
          [] h \in {8, 20, 21} -> 10
          [] OTHER -> 5]

\* self.hourly_usage_profile.get(hour_of_day, 0.0)
hourly_percentage(self, hour_of_day) ==
    IF hour_of_day \in DOMAIN self.hourly_usage_profile
    THEN Frac(self.hourly_usage_profile[hour_of_day], 100)
    ELSE FZero

\* BoilerCalculator._get_data_interval_hours
boiler_data_interval_hours(data) ==
    IF Len(data) > 1 THEN Frac(Mode(Diffs(data)), 1) ELSE Frac(1, 4)

\* BoilerCalculator._get_cold_water_temp
_get_cold_water_temp(self) == Frac(self.config.cold_water_temp, 1)

\* max_temp = water_temp + self.water_temp_rise, water_temp being cold
max_temp(self) == FAdd(_get_cold_water_temp(self), Frac(self.config.water_temperature_rise, 1))

\* BoilerCalculator._get_interval_hot_water_usage
_get_interval_hot_water_usage(self, hour_of_day, interval_hours) ==
    FMul(FMul(Frac(self.config.daily_hot_water_usage, 1),
              hourly_percentage(self, hour_of_day)), interval_hours)

\* water_volume * self.specific_heat_capacity
HeatCapacity(self) == FMul(Frac(self.config.capacity, 1), specific_heat_capacity)

\* slip: the daily loss percentage is applied per hour, not divided by 24
_calculate_interval_heat_loss_DailyRate(self, water_temp, interval_hours) ==
    IF self.config.capacity <= 0 \/ FLe(water_temp, _get_cold_water_temp(self))
    THEN FZero
    ELSE LET stored_heat      == FMul(HeatCapacity(self),
                                      FSub(water_temp, _get_cold_water_temp(self)))
             hourly_loss_rate == Frac(self.config.standby_loss_percent, 100)
         IN  FMul(FMul(stored_heat, hourly_loss_rate), interval_hours)

\* BoilerCalculator._calculate_interval_heat_loss
_calculate_interval_heat_loss(self, water_temp, interval_hours) ==
    IF self.config.capacity <= 0 \/ FLe(water_temp, _get_cold_water_temp(self))
    THEN FZero
    ELSE LET stored_heat      == FMul(HeatCapacity(self),
                                      FSub(water_temp, _get_cold_water_temp(self)))
             hourly_loss_rate == Frac(self.config.standby_loss_percent, 100 * 24)
         IN  FMul(FMul(stored_heat, hourly_loss_rate), interval_hours)

\* slip: the temperature after the heat loss is not floored at cold-inlet
AfterHeatLoss_NoFloor(self, water_temp, heat_loss_kwh) ==
    IF self.config.capacity > 0
    THEN FSub(water_temp, FDiv(heat_loss_kwh, HeatCapacity(self)))
    ELSE water_temp

\* step 3 of the loop: the temperature after the heat loss
AfterHeatLoss(self, water_temp, heat_loss_kwh) ==
    IF self.config.capacity > 0
    THEN FMax(FSub(water_temp, FDiv(heat_loss_kwh, HeatCapacity(self))),
              _get_cold_water_temp(self))
    ELSE water_temp

\* step 4: energy_needed, before the efficiency factor
EnergyNeeded(self, hot_water_usage) ==
    IF FLt(FZero, hot_water_usage)
    THEN FMul(FMul(hot_water_usage, specific_heat_capacity),
              FSub(max_temp(self), _get_cold_water_temp(self)))
    ELSE FZero

\* an unassigned local variable of calculate()
Unbound == [bound |-> FALSE]

Bound(v) == [bound |-> TRUE, value |-> v]

\* energy_needed_with_efficiency after step 4: assigned only when there is
\* hot water usage, otherwise what the previous pass left
EnergyNeededWithEfficiency(self, hot_water_usage, energy_needed) ==
    IF FLt(FZero, hot_water_usage)
    THEN Bound(FDiv(energy_needed, Frac(self.config.efficiency, 10)))
    ELSE self.energy_needed_with_efficiency

\* steps 1 and 2 of a pass: the draw-off and the heat loss of the interval
PassLoss(self, row) ==
    [timestamp          |-> row.ts,
     hour_of_day        |-> row.ts % 24,
     surplus_energy_kwh |-> Frac(get_surplus_energy(row), 1000),
     hot_water_demand_l |-> _get_interval_hot_water_usage(self, row.ts % 24, self.interval),
     heat_loss_kwh      |-> _calculate_interval_heat_loss(self, self.water_temp, self.interval),
     before_temp        |-> self.water_temp]

\* steps 3 and 4: the cooled water and the energy the draw-off asks for
PassNeeded(self, p) ==
    p @@ [cooled_temp   |-> AfterHeatLoss(self, p.before_temp, p.heat_loss_kwh),
          energy_needed |-> EnergyNeeded(self, p.hot_water_demand_l),
          needed_eff    |-> EnergyNeededWithEfficiency(self, p.hot_water_demand_l,
                                EnergyNeeded(self, p.hot_water_demand_l))]

\* step 5: energy_used = min(max(0, surplus), needed) if energy_needed > 0 else 0
PassDemand(self, p) ==
    p @@ [used_for_demand |-> IF FLt(FZero, p.energy_needed)
                              THEN FMin(FMax(FZero, p.surplus_energy_kwh), p.needed_eff.value)
                              ELSE FZero]

\* slip: all the remaining surplus is used, whatever the tank can take
PassHeating_Unbounded(self, p) ==
    p @@ [heats |-> FLt(p.used_for_demand, p.surplus_energy_kwh)
                       /\ FLt(p.cooled_temp, max_temp(self)),
          additional_energy_used |-> FSub(p.surplus_energy_kwh, p.used_for_demand)]

\* step 5: if surplus > energy_used and water_temp < max_temp, the energy
\* that goes into the water already in the tank
PassHeating(self, p) ==
    p @@ [heats |-> FLt(p.used_for_demand, p.surplus_energy_kwh)
                       /\ FLt(p.cooled_temp, max_temp(self)),
          additional_energy_used |->
              FMin(FSub(p.surplus_energy_kwh, p.used_for_demand),
                   FMul(HeatCapacity(self), FSub(max_temp(self), p.cooled_temp)))]

\* step 5: the temperature after heating, and energy_used += additional
PassUsed(self, p) ==
    p @@ [heated_temp     |-> IF p.heats /\ self.config.capacity > 0
                              THEN FMin(FAdd(p.cooled_temp,
                                             FDiv(p.additional_energy_used, HeatCapacity(self))),
                                        max_temp(self))
                              ELSE p.cooled_temp,
          energy_used_kwh |-> IF p.heats
                              THEN FAdd(p.used_for_demand, p.additional_energy_used)
                              ELSE p.used_for_demand]

\* slip: the gas price is applied to the energy, not to the gas volume
PassSaved_PricePerKWh(self, p) ==
    p @@ [gas_saved_m3      |-> FDiv(p.energy_used_kwh, Frac(self.config.gas_energy_content, 100)),
          financial_savings |-> FMul(p.energy_used_kwh, Frac(self.config.gas_price, 100))]

\* step 6: gas saved and its price
PassSaved(self, p) ==
    p @@ [gas_saved_m3      |-> FDiv(p.energy_used_kwh, Frac(self.config.gas_energy_content, 100)),
          financial_savings |-> FMul(FDiv(p.energy_used_kwh,
                                          Frac(self.config.gas_energy_content, 100)),
                                     Frac(self.config.gas_price, 100))]

\* the state of one pass of the loop of calculate() before its last step
BoilerPass(self, row) ==
    PassSaved(self, PassUsed(self, PassHeating(self, PassDemand(self,
        PassNeeded(self, PassLoss(self, row))))))

\* step 7: water_temp = max_temp if energy_used >= energy_needed_with_efficiency
FinalTemp(self, pass) ==
    IF FLe(pass.needed_eff.value, pass.energy_used_kwh)
    THEN max_temp(self)
    ELSE pass.heated_temp

\* the row of result_df written by a pass that completed
BoilerRow(self, pass) ==
    [timestamp          |-> pass.timestamp,
     hour_of_day        |-> pass.hour_of_day,
     surplus_energy_kwh |-> pass.surplus_energy_kwh,
     hot_water_demand_l |-> pass.hot_water_demand_l,
     heat_loss_kwh      |-> pass.heat_loss_kwh,
     before_temp        |-> pass.before_temp,
     cooled_temp        |-> pass.cooled_temp,
     heated_temp        |-> pass.heated_temp,
     energy_needed_kwh  |-> IF FLt(FZero, pass.hot_water_demand_l)
                            THEN pass.needed_eff ELSE Unbound,
     gas_needed_m3      |-> IF FLt(FZero, pass.hot_water_demand_l)
                            THEN Bound(FDiv(pass.needed_eff.value,
                                            Frac(self.config.gas_energy_content, 100)))
                            ELSE Unbound,
     energy_used_kwh    |-> pass.energy_used_kwh,
     gas_saved_m3       |-> pass.gas_saved_m3,
     financial_savings  |-> pass.financial_savings,
     water_temp         |-> FinalTemp(self, pass),
     water_volume       |-> self.config.capacity,
     heat_energy_kwh    |-> FMul(HeatCapacity(self),
                                 FSub(FinalTemp(self, pass), _get_cold_water_temp(self)))]

RECURSIVE FSum(_)
\* Series.sum() of a column of fractions
FSum(s) == IF s = <<>> THEN FZero ELSE FAdd(s[1], FSum(Tail(s)))

\* the energy_needed_kwh column with its empty (NaN) cells read as 0
NeededColumn(rows) ==
    [k \in 1..Len(rows) |->
        IF rows[k].energy_needed_kwh.bound THEN rows[k].energy_needed_kwh.value ELSE FZero]

\* x / y * 100 if y > 0 else 0
PercentOf(x, y) == IF FLt(FZero, y) THEN FMul(FDiv(x, y), Frac(100, 1)) ELSE FZero

\* a column whose empty (NaN) cells are skipped by sum()
SkipNaN(rows, name) ==
    [k \in 1..Len(rows) |-> IF rows[k][name].bound THEN rows[k][name].value ELSE FZero]

\* (x / y * 100).replace([np.inf, -np.inf], 0).fillna(0)
FRatioOrZero(x, y) == IF y = FZero THEN FZero ELSE FMul(FDiv(x, y), Frac(100, 1))

boiler_agg_columns ==
    {"surplus_energy_kwh", "energy_used_kwh", "heat_loss_kwh", "gas_saved_m3",
     "financial_savings"}

\* one row of agg_df: the sums of a group and the two derived ratios
BoilerAggRow(key, group) ==
    [c \in boiler_agg_columns |-> FSum(Column(group, c))]
        @@ [period              |-> key,
            energy_needed_kwh   |-> FSum(SkipNaN(group, "energy_needed_kwh")),
            gas_needed_m3       |-> FSum(SkipNaN(group, "gas_needed_m3")),
            surplus_utilization |->
                FRatioOrZero(FSum(Column(group, "energy_used_kwh")),
                             FSum(Column(group, "surplus_energy_kwh"))),
            heating_coverage    |->
                FRatioOrZero(FSum(Column(group, "energy_used_kwh")),
                             FSum(SkipNaN(group, "energy_needed_kwh")))]

\* the rows of agg_df, given the groups
BoilerAggregated(groups, keys) ==
    [i \in 1..Len(keys) |-> BoilerAggRow(keys[i], groups[keys[i]])]

\* BoilerCalculator._create_time_aggregation
boiler_create_time_aggregation(df, period) ==
    IF period \in {"daily", "weekly", "monthly"}
    THEN BoilerAggregated(groupby(df, period), SortedKeys(DOMAIN groupby(df, period)))
    ELSE <<>>

\* the totals stored in self.results at the end of calculate()
BoilerResults(self) ==
    LET total_surplus_kwh       == FSum(Column(self.rows, "surplus_energy_kwh"))
        total_energy_used_kwh   == FSum(Column(self.rows, "energy_used_kwh"))
        total_energy_needed_kwh == FSum(NeededColumn(self.rows))
    IN  [total_surplus_kwh           |-> total_surplus_kwh,
         total_energy_used_kwh       |-> total_energy_used_kwh,
         total_energy_needed_kwh     |-> total_energy_needed_kwh,
         total_gas_needed_m3         |-> FSum(SkipNaN(self.rows, "gas_needed_m3")),
         total_gas_saved_m3          |-> FSum(Column(self.rows, "gas_saved_m3")),
         daily_agg   |-> boiler_create_time_aggregation(self.rows, "daily"),
         weekly_agg  |-> boiler_create_time_aggregation(self.rows, "weekly"),
         monthly_agg |-> boiler_create_time_aggregation(self.rows, "monthly"),
         total_financial_savings     |-> FSum(Column(self.rows, "financial_savings")),
         surplus_utilization_percent |-> PercentOf(total_energy_used_kwh, total_surplus_kwh),
         heating_efficiency_percent  |-> PercentOf(total_energy_used_kwh, total_energy_needed_kwh)]

----------------------------------------------------------------------------
(* A caller that builds one BoilerCalculator on a table handed over by the *)
(* ingestion step and calls calculate(); each pass of the loop is a step.  *)

BoilerCapacities == {0, 100}           \* litres

DailyUsages == {120, 1200}             \* litres per day

StandbyLosses == {0, 1200, 4800}       \* percent of the stored heat per day

BoilerConfigs ==
    [capacity               : BoilerCapacities,
     efficiency             : {9},
     water_temperature_rise : {40},
     daily_hot_water_usage  : DailyUsages,
     standby_loss_percent   : StandbyLosses,
     cold_water_temp        : {10},
     gas_energy_content     : {977},
     gas_price              : {80}]

\* hour of the day of the first row: 4 has no draw-off in the profile, 9 has
StartHours == {4, 9}

\* <<Energy Produced (Wh), Energy Consumed (Wh)>> of a row
BoilerReadings == {<<0, 500>>, <<500, 500>>, <<1500, 500>>, <<6000, 0>>}

BoilerTables ==
    UNION {SeriesFrom(h, BoilerReadings, n) : h \in StartHours, n \in 0..MaxSteps}

\* BoilerCalculator.__init__
BoilerCalculator(data, config) ==
    [data                 |-> data,
     data_is_none         |-> FALSE,
     summary              |-> "not called",
     config               |-> config,
     hourly_usage_profile |-> _default_usage_profile,
     results              |-> None,
     pc                   |-> "constructed",
     raised               |-> "none",
     interval             |-> FZero,
     water_temp           |-> FZero,
     energy_needed_with_efficiency |-> Unbound,
     rows                 |-> <<>>,
     i                    |-> 0]

InitBoiler ==
    /\ sim = NoSimulation
    /\ ret = NoCall
    /\ hist = <<>>
    /\ saved = NoRun
    /\ mgr = NoManager
    /\ bat = NoCalculator
    /\ \E data \in BoilerTables, config \in BoilerConfigs :
          boil = BoilerCalculator(data, config)

\* BoilerCalculator.calculate up to the loop: the empty-data return, and the
\* locals every call creates: the interval, the initial state (cold water,
\* no energy-needed value yet) and an empty result table
boiler_calculate_enter(self) ==
    IF no_data(self)
    THEN [self EXCEPT !.pc = "returned", !.raised = "none"]
    ELSE [self EXCEPT
             !.pc = "loop",
             !.raised = "none",
             !.i = 1,
             !.interval = boiler_data_interval_hours(self.data),
             !.water_temp = _get_cold_water_temp(self),
             !.energy_needed_with_efficiency = Unbound,
             !.rows = <<>>]

\* the first call of calculate() on a calculator, up to the loop
BoilerEnter ==
    /\ boil.pc = "constructed"
    /\ boil' = boiler_calculate_enter(boil)
    /\ UNCHANGED <<sim, ret, hist, saved, bat, mgr>>

\* one pass of the loop; its last step reads energy_needed_with_efficiency,
\* which raises UnboundLocalError while no pass has assigned it
BoilerPassStep ==
    /\ boil.pc = "loop"
    /\ boil.i <= Len(boil.data)
    /\ LET pass == BoilerPass(boil, Loc(boil.data, boil.i))
       IN  IF ~pass.needed_eff.bound
           THEN boil' = [boil EXCEPT !.pc = "raised",
                                     !.raised = "UnboundLocalError",
                                     !.water_temp = pass.heated_temp]
           ELSE boil' = [boil EXCEPT
                    !.i = boil.i + 1,
                    !.water_temp = FinalTemp(boil, pass),
                    !.energy_needed_with_efficiency = pass.needed_eff,
                    !.rows = Append(boil.rows, BoilerRow(boil, pass))]
    /\ UNCHANGED <<sim, ret, hist, saved, bat, mgr>>

\* calculate() after the loop: the totals and the two percentages
BoilerFinish ==
    /\ boil.pc = "loop"
    /\ boil.i > Len(boil.data)
    /\ boil' = [boil EXCEPT !.pc = "returned", !.results = BoilerResults(boil)]
    /\ UNCHANGED <<sim, ret, hist, saved, bat, mgr>>

NextBoiler ==
    \/ BoilerEnter
    \/ BoilerPassStep
    \/ BoilerFinish

SpecBoiler == InitBoiler /\ [][NextBoiler]_vars

----------------------------------------------------------------------------
(* Properties of BoilerCalculator.calculate, checked under SpecBoiler      *)

\* C10: the water temperature recorded after every interval lies between
\* the cold-inlet temperature and cold-inlet + the configured rise
C10_TemperatureWithinBounds ==
    boil.pc \in {"loop", "returned", "raised"} =>
        \A k \in 1..Len(boil.rows) :
            /\ FLe(_get_cold_water_temp(boil), boil.rows[k].water_temp)
            /\ FLe(boil.rows[k].water_temp,
                   <<boil.config.cold_water_temp + boil.config.water_temperature_rise, 1>>)

\* a run that recorded the max temperature and, after a standby loss larger
\* than the stored heat, the cold-inlet temperature again
C10_Witness ==
    /\ boil.pc = "returned"
    /\ boil.results # None
    /\ \E j, k \in 1..Len(boil.rows) :
          /\ j < k
          /\ boil.rows[j].water_temp = max_temp(boil)
          /\ FLt(boil.rows[k].before_temp, FAdd(boil.rows[k].before_temp, boil.rows[k].heat_loss_kwh))
          /\ FLt(FMul(HeatCapacity(boil), FSub(boil.rows[k].before_temp, _get_cold_water_temp(boil))),
                 boil.rows[k].heat_loss_kwh)
          /\ boil.rows[k].water_temp = _get_cold_water_temp(boil)

\* a recorded interval whose hour has no draw-off and whose surplus is zero
Idle(row) == row.hot_water_demand_l = FZero /\ row.surplus_energy_kwh = FZero

\* stored heat x daily loss / 24 x duration, as a temperature drop: the heat
\* capacity cancels, leaving (temperature - cold) x percent / 100 / 24 x hours
StandbyDrop(before_temp) ==
    FMul(FMul(FSub(before_temp, <<boil.config.cold_water_temp, 1>>),
              <<boil.config.standby_loss_percent, 2400>>),
         boil.interval)

----------------------------------------------------------------------------
(* data_processor.py : DataProcessor.load_data, and a caller that loads a  *)
(* CSV file and hands the stored dataset to one of the two calculators     *)
(* (pages/battery.py, pages/boiler.py).                                    *)

\* pd.read_csv : the rows in file order, index labels by position
read_csv(file) ==
    [k \in 1..Len(file) |->
        [ts |-> file[k].ts, produced |-> file[k].produced,
         consumed |-> file[k].consumed, label |-> k]]

\* the place of row k in ascending Date/Time order
Rank(df, k) ==
    1 + Cardinality({j \in 1..Len(df) :
            df[j].ts < df[k].ts \/ (df[j].ts = df[k].ts /\ j < k)})

\* df.sort_values('Date/Time', inplace=True) : the rows move, each keeps its
\* index label
sort_values(df) ==
    [p \in 1..Len(df) |-> df[CHOOSE k \in 1..Len(df) : Rank(df, k) = p]]

\* df.reset_index(drop=True, inplace=True)
reset_index(df) == [k \in 1..Len(df) |-> [df[k] EXCEPT !.label = k]]

\* DataProcessor._convert_datetime : "listed" when one of the three listed
\* date formats parses the column, "detected" when only the automatic
\* detection does
_convert_datetime(df, date_format) ==
    IF date_format = "listed"
    THEN sort_values(df)
    ELSE reset_index(sort_values(df))

\* DataProcessor.load_data : the dataset stored in self.data
load_data(file, date_format) == _convert_datetime(read_csv(file), date_format)

DateFormats == {"listed", "detected"}

\* <<Energy Produced (Wh), Energy Consumed (Wh)>> of a line of the file
FileReadings == {<<500, 1000>>, <<6000, 0>>}

\* the CSV files: every order of the lines of a series with distinct times
CsvFiles ==
    UNION {{[k \in 1..Len(t) |-> [ts       |-> t[p[k]].ts,
                                  produced |-> t[p[k]].produced,
                                  consumed |-> t[p[k]].consumed]] :
               p \in Permutations(1..Len(t))} :
           t \in UNION {SeriesFrom(9, FileReadings, n) : n \in 0..MaxSteps}}

\* the configuration the pages pass along with the dataset
FileBatteryConfig ==
    CHOOSE c \in BatteryConfigs :
        /\ c.capacity = kWh(500)
        /\ c.efficiency = 9
        /\ c.installation_cost = 5000
        /\ c.expected_cycles = 3650

FileBoilerConfig ==
    CHOOSE c \in BoilerConfigs :
        /\ c.capacity = 100
        /\ c.daily_hot_water_usage = 120
        /\ c.standby_loss_percent = 1200

\* a file waiting to be loaded for one of the calculators
Pending(file, date_format) == [pc |-> "file", file |-> file, date_format |-> date_format]

\* DataProcessor._validate_columns on the columns of the file read
_validate_columns(columns) ==
    LET required_cols == {"Date/Time", "Energy Produced (Wh)", "Energy Consumed (Wh)"}
        missing_cols  == required_cols \ columns
    IN  IF missing_cols # {} THEN "ValueError" ELSE "passed"

\* DataProcessor.load_data on a new processor : what the caller gets and
\* whether self.data is still None afterwards
load_data_outcome(path) ==
    IF ~path.exists
    THEN [raised |-> "nothing", returned |-> FALSE, data_is_none |-> TRUE]
    ELSE IF _validate_columns(path.columns) = "ValueError"
    THEN \* except Exception as e: ... return False
         [raised |-> "nothing", returned |-> FALSE, data_is_none |-> TRUE]
    ELSE [raised |-> "nothing", returned |-> TRUE, data_is_none |-> FALSE]

\* the paths that do not lead to a dataset: no file there, or a CSV file
\* without one of the required columns
BadPaths ==
    {[pc |-> "path", exists |-> e, columns |-> c] :
        e \in BOOLEAN,
        c \in (SUBSET {"Date/Time", "Energy Produced (Wh)", "Energy Consumed (Wh)",
                       "Self-Consumed (Wh)"})
                 \ {c \in SUBSET {"Date/Time", "Energy Produced (Wh)",
                                  "Energy Consumed (Wh)", "Self-Consumed (Wh)"} :
                        _validate_columns(c) = "passed"}}

\* a calculator constructed with data = None
WithoutData(calculator) == [calculator EXCEPT !.data_is_none = TRUE]

InitIngest ==
    /\ sim = NoSimulation
    /\ ret = NoCall
    /\ hist = <<>>
    /\ saved = NoRun
    /\ mgr = NoManager
    /\ \/ \E file \in CsvFiles, date_format \in DateFormats :
             \/ bat = Pending(file, date_format) /\ boil = NoCalculator
             \/ boil = Pending(file, date_format) /\ bat = NoCalculator
       \/ \E path \in BadPaths :
             \/ bat = path /\ boil = NoCalculator
             \/ boil = path /\ bat = NoCalculator
       \/ bat = WithoutData(BatteryCalculator(<<>>, FileBatteryConfig))
             /\ boil = NoCalculator
       \/ boil = WithoutData(BoilerCalculator(<<>>, FileBoilerConfig))
             /\ bat = NoCalculator

\* pages/battery.py : BatteryCalculator(data_processor.data, config)
LoadBattery ==
    /\ bat.pc = "file"
    /\ bat' = BatteryCalculator(load_data(bat.file, bat.date_format), FileBatteryConfig)
    /\ UNCHANGED <<sim, ret, hist, saved, boil, mgr>>

\* pages/boiler.py : BoilerCalculator(data_processor.data, config)
LoadBoiler ==
    /\ boil.pc = "file"
    /\ boil' = BoilerCalculator(load_data(boil.file, boil.date_format), FileBoilerConfig)
    /\ UNCHANGED <<sim, ret, hist, saved, bat, mgr>>

\* load_data on a path that gives no dataset: the page shows a message and
\* constructs no calculator
LoadRejected ==
    \/ /\ bat.pc = "path"
       /\ bat' = [pc |-> "no dataset", path |-> bat, outcome |-> load_data_outcome(bat)]
       /\ UNCHANGED <<sim, ret, hist, saved, boil, mgr>>
    \/ /\ boil.pc = "path"
       /\ boil' = [pc |-> "no dataset", path |-> boil, outcome |-> load_data_outcome(boil)]
       /\ UNCHANGED <<sim, ret, hist, saved, bat, mgr>>

\* BatteryCalculator.get_summary on a calculator without a result runs
\* calculate() first: on missing or empty data that returns at once, on
\* other data it is the steps CalculateEnter, CalculateRow, CalculateFinish
GetSummaryBattery ==
    /\ bat.pc \in {"constructed", "returned"}
    /\ bat.pc = "constructed" => no_data(bat)
    /\ bat.summary = "not called"
    /\ bat' = [bat EXCEPT !.pc = "returned", !.summary = get_summary(bat)]
    /\ UNCHANGED <<sim, ret, hist, saved, boil, mgr>>

\* BoilerCalculator.get_summary, likewise
GetSummaryBoiler ==
    /\ boil.pc \in {"constructed", "returned"}
    /\ boil.pc = "constructed" => no_data(boil)
    /\ boil.summary = "not called"
    /\ boil' = [boil EXCEPT !.pc = "returned", !.summary = get_summary(boil)]
    /\ UNCHANGED <<sim, ret, hist, saved, bat, mgr>>

NextIngest ==
    \/ LoadBattery
    \/ LoadRejected
    \/ LoadBoiler
    \/ GetSummaryBattery
    \/ GetSummaryBoiler
    \/ CalculateEnter
    \/ CalculateRow
    \/ CalculateFinish
    \/ BoilerEnter
    \/ BoilerPassStep
    \/ BoilerFinish

SpecIngest == InitIngest /\ [][NextIngest]_vars

\* the timestamps of the rows of a result table, in the order in which the
\* passes of the loop wrote them
Processed(calc) ==
    IF calc.pc \in {"loop", "returned", "raised"}
    THEN Column(calc.rows, "timestamp")
    ELSE <<>>

Ascending(s) == \A j, k \in 1..Len(s) : j < k => s[j] < s[k]

\* C12: both calculators step the simulation over the intervals in strictly
\* ascending timestamp order for every dataset load_data hands over
C12_AscendingOrder ==
    /\ Ascending(Processed(bat))
    /\ Ascending(Processed(boil))

----------------------------------------------------------------------------
(* Properties of the aggregated tables, checked under SpecIngest           *)

PeriodKinds == {"daily", "weekly", "monthly"}

\* the number of the calendar month of a day: October 2024 starts on day 2,
\* November on day 33, December on day 63
MonthNumber(day) == Cardinality({first \in {2, 33, 63} : first <= day})

\* two timestamps lie in the same calendar day, ISO week or month
SamePeriod(period, t, u) ==
    CASE period = "daily"   -> t \div 24 = u \div 24
      [] period = "weekly"  -> ((t \div 24) + 6) \div 7 = ((u \div 24) + 6) \div 7
      [] period = "monthly" -> MonthNumber(t \div 24) = MonthNumber(u \div 24)

\* the aggregated table of one kind in a result dictionary
AggOf(results, period) ==
    CASE period = "daily"   -> results.daily_agg
      [] period = "weekly"  -> results.weekly_agg
      [] period = "monthly" -> results.monthly_agg

\* the result rows whose timestamp falls in the period of an aggregated row
RowsIn(rows, period, agg_row) ==
    SelectSeq(rows, LAMBDA r : SamePeriod(period, r.timestamp, 24 * agg_row.period))

\* the number of distinct calendar periods present in the rows
DistinctPeriods(rows, period) ==
    Cardinality({{j \in 1..Len(rows) :
                    SamePeriod(period, rows[j].timestamp, rows[k].timestamp)} :
                 k \in 1..Len(rows)})

\* every row falls in the period of exactly one aggregated row, and there
\* is one aggregated row per distinct period
Partitioned(rows, agg, period) ==
    /\ \A k \in 1..Len(rows) :
          Cardinality({i \in 1..Len(agg) :
              SamePeriod(period, rows[k].timestamp, 24 * agg[i].period)}) = 1
    /\ \A i \in 1..Len(agg) : RowsIn(rows, period, agg[i]) # <<>>
    /\ Len(agg) = DistinctPeriods(rows, period)

IsZero(q) == q.kind = "num" /\ (\E i \in DOMAIN q.nums : q.nums[i] = 0)

\* a reported number that is finite: not NaN, not infinite
IsFinite(q) == q.kind = "num" /\ (\A i \in DOMAIN q.dens : q.dens[i] # 0)

\* the aggregated rows of a battery result, all three tables together
PeriodRows(results) ==
    UNION {{AggOf(results, period)[i] : i \in 1..Len(AggOf(results, period))} :
           period \in PeriodKinds}

Constructed(calc) == calc.pc \in {"constructed", "loop", "returned", "raised"}

\* what C15 asks of such a calculator at every moment: no pass of the loop
\* ran, nothing was raised, self.results is unset and a summary that was
\* asked for is empty
EmptyResult(calc) ==
    /\ calc.pc \in {"constructed", "returned"}
    /\ calc.raised = "none"
    /\ calc.rows = <<>>
    /\ calc.i = 0
    /\ calc.results = None
    /\ calc.summary \in {"not called", "empty"}

\* C15: on an absent (None) or zero-row series calculate() of both
\* calculators returns an empty result without stepping the simulation or
\* raising, leaves self.results unset, and get_summary() is empty too
C15_EmptyInput ==
    /\ (Constructed(bat) /\ no_data(bat))
          => EmptyResult(bat) /\ bat.battery_sim = NoSimulation
    /\ (Constructed(boil) /\ no_data(boil)) => EmptyResult(boil)

\* get_summary() has answered on a boiler calculator built on None
C15_Witness ==
    /\ Constructed(boil)
    /\ boil.data_is_none
    /\ boil.pc = "returned"
    /\ boil.summary = "empty"
    /\ boil.results = None

----------------------------------------------------------------------------
(* Properties of the ROI block, checked under SpecBattery                  *)

\* the factors of a product other than 1, each with its multiplicity
SameFactors(s, t) ==
    \A v \in ({s[i] : i \in DOMAIN s} \cup {t[i] : i \in DOMAIN t}) \ {1} :
        Cardinality({i \in DOMAIN s : s[i] = v}) = Cardinality({i \in DOMAIN t : t[i] = v})

\* two reported numbers are equal: both 0, or equal after cross-multiplying
SameNumber(p, q) ==
    /\ p.kind = "num"
    /\ q.kind = "num"
    /\ \/ IsZero(p) /\ IsZero(q)
       \/ /\ ~IsZero(p)
          /\ ~IsZero(q)
          /\ SameFactors(p.nums \o q.dens, q.nums \o p.dens)

\* p x q and p / q of reported numbers
Times(p, q) == Quot(p.nums \o q.nums, p.dens \o q.dens)

Over(p, q) == Quot(p.nums \o q.dens, p.dens \o q.nums)

\* days spanned by the data, total savings and installation cost, the money
\* in the unit of the savings columns (cents x energy units)
DaysSpanned == (bat.data[Len(bat.data)].ts - bat.data[1].ts) \div 24

TotalSavings == Quot(<<bat.results.total_savings_eur>>, <<1>>)

InstallationCost == Quot(<<bat.config.installation_cost, 100, Unit>>, <<1>>)

\* C17: annual savings = total savings x 365 / days spanned = 365 x daily
\* savings; payback years = installation cost / annual savings when the
\* annual savings are positive, infinite when they are not or the data spans
\* 0 days; ROI percent = annual savings / installation cost x 100
C17_RoiBlock ==
    (bat.pc = "returned" /\ bat.results # None) =>
        LET roi    == bat.results.roi_metrics
            annual == roi.annual_savings_eur
        IN  /\ SameNumber(annual, Times(Quot(<<365>>, <<1>>), roi.daily_savings_eur))
            /\ DaysSpanned > 0 =>
                  SameNumber(annual, Over(Times(TotalSavings, Quot(<<365>>, <<1>>)),
                                          Quot(<<DaysSpanned>>, <<1>>)))
            /\ (DaysSpanned > 0 /\ bat.results.total_savings_eur > 0) =>
                  SameNumber(roi.payback_years, Over(InstallationCost, annual))
            /\ (DaysSpanned = 0 \/ bat.results.total_savings_eur <= 0) =>
                  roi.payback_years = Infinity
            /\ bat.config.installation_cost > 0 =>
                  SameNumber(roi.roi_percent,
                             Times(Over(annual, InstallationCost), Quot(<<100>>, <<1>>)))

\* two days of data with positive total savings and a paid installation: a
\* finite payback time and a positive ROI
C17_Witness ==
    /\ bat.pc = "returned"
    /\ bat.results # None
    /\ DaysSpanned = 2
    /\ bat.results.total_savings_eur > 0
    /\ bat.config.installation_cost > 0
    /\ bat.results.roi_metrics.payback_years.kind = "num"
    /\ ~IsZero(bat.results.roi_metrics.roi_percent)
    /\ bat.results.roi_metrics.annual_savings_eur
          = Quot(<<bat.results.total_savings_eur, 365>>, <<2>>)

----------------------------------------------------------------------------
(* Properties of the boiler totals, checked under SpecBoiler               *)

\* C18: the boiler result's total_energy_used_kwh does not exceed its
\* total_surplus_kwh, the sum of the surplus column over all intervals
C18_UsedWithinSurplus ==
    (boil.pc = "returned" /\ boil.results # None)
        => FLe(boil.results.total_energy_used_kwh, boil.results.total_surplus_kwh)

\* the gas energy content (kWh per m3) and the gas price (EUR per m3)
GasEnergyContent == <<boil.config.gas_energy_content, 100>>

GasPrice == <<boil.config.gas_price, 100>>

\* C19: in every boiler result row gas saved = energy used / gas energy
\* content and financial savings = gas saved x gas price, and the reported
\* total financial savings equals total gas saved x gas price
C19_GasSavings ==
    /\ boil.pc \in {"loop", "returned", "raised"} =>
          \A k \in 1..Len(boil.rows) :
              /\ FMul(boil.rows[k].gas_saved_m3, GasEnergyContent) = boil.rows[k].energy_used_kwh
              /\ boil.rows[k].financial_savings = FMul(boil.rows[k].gas_saved_m3, GasPrice)
    /\ (boil.pc = "returned" /\ boil.results # None) =>
          /\ boil.results.total_financial_savings
                = FMul(boil.results.total_gas_saved_m3, GasPrice)
          /\ FMul(boil.results.total_gas_saved_m3, GasEnergyContent)
                = boil.results.total_energy_used_kwh

\* a run in which two intervals used different amounts of surplus
C19_Witness ==
    /\ boil.pc = "returned"
    /\ boil.results # None
    /\ \E j, k \in 1..Len(boil.rows) :
          /\ FLt(FZero, boil.rows[j].energy_used_kwh)
          /\ FLt(boil.rows[j].energy_used_kwh, boil.rows[k].energy_used_kwh)
          /\ FLt(boil.rows[k].financial_savings, boil.results.total_financial_savings)

----------------------------------------------------------------------------
(* storage_calculator.py : StorageCalculator.get_surplus_energy, and a     *)
(* caller that builds a calculator on a table with some of the columns and *)
(* asks for the surplus series.                                            *)

\* the column names of a table
ColumnSets ==
    {{"Energy Produced (Wh)", "Energy Consumed (Wh)"},
     {"Date/Time", "Energy Produced (Wh)", "Energy Consumed (Wh)"},
     {"Date/Time", "Energy Produced (Wh)", "Energy Consumed (Wh)", "surplus_energy"},
     {"Date/Time", "surplus_energy"},
     {"Date/Time", "Energy Produced (Wh)"},
     {"Date/Time"}}

\* StorageCalculator.get_surplus_energy : the whole series
StorageCalculator_get_surplus_energy(self) ==
    IF "surplus_energy" \in self.columns
    THEN Column(self.data, "surplus_energy")
    ELSE IF {"Energy Produced (Wh)", "Energy Consumed (Wh)"} \subseteq self.columns
    THEN [k \in 1..Len(self.data) |-> get_surplus_energy(self.data[k])]
    ELSE [k \in 1..Len(self.data) |-> 0]

\* <<Energy Produced (Wh), Energy Consumed (Wh), surplus_energy>> of a row:
\* the third is the difference, as process_data stores it, or a value some
\* other caller stored (here the difference clipped at 0)
SurplusReadings == {<<0, 500, -500>>, <<0, 500, 0>>, <<1500, 500, 1000>>, <<500, 500, 0>>}

RECURSIVE SurplusTables(_)
\* the tables of n rows in ascending time order, the first row at hour 0
SurplusTables(n) ==
    IF n = 0 THEN {<<>>}
    ELSE {Append(t, [ts |-> IF n = 1 THEN 0 ELSE t[n - 1].ts + d,
                     produced |-> r[1], consumed |-> r[2],
                     surplus_energy |-> r[3], label |-> n]) :
             t \in SurplusTables(n - 1), r \in SurplusReadings,
             d \in IF n = 1 THEN {1} ELSE Deltas}

\* StorageCalculator.__init__ on a table with the given columns
StorageCalculator(data, columns) ==
    [pc |-> "constructed", data |-> data, columns |-> columns, results |-> None]

InitSurplus ==
    /\ sim = NoSimulation
    /\ ret = NoCall
    /\ hist = <<>>
    /\ saved = NoRun
    /\ mgr = NoManager
    /\ boil = NoCalculator
    /\ \E n \in 0..(MaxSteps + 1) : \E data \in SurplusTables(n), columns \in ColumnSets :
          bat = StorageCalculator(data, columns)

GetSurplusEnergy ==
    /\ ret = NoCall
    /\ bat.pc = "constructed"
    /\ ret' = [op |-> "get_surplus_energy", out |-> StorageCalculator_get_surplus_energy(bat)]
    /\ UNCHANGED <<sim, hist, saved, bat, boil, mgr>>

\* Timedelta.total_seconds() of a difference of timestamps given in hours
total_seconds(delta) == delta * 3600

\* slip: the first difference is taken instead of the most frequent one
_get_data_interval_hours_FirstDelta(self) ==
    IF "Date/Time" \in self.columns /\ Len(self.data) > 1
    THEN LET intervals == Diffs(self.data)
         IN  IF Len(intervals) > 0
             THEN Frac(total_seconds(intervals[1]), 3600)
             ELSE Frac(1, 4)
    ELSE Frac(1, 4)

\* BatteryCalculator._get_data_interval_hours and
\* BoilerCalculator._get_data_interval_hours (the same code), in hours
_get_data_interval_hours(self) ==
    IF "Date/Time" \in self.columns /\ Len(self.data) > 1
    THEN LET intervals == Diffs(self.data)
         IN  IF Len(intervals) > 0
             THEN Frac(total_seconds(Mode(intervals)), 3600)
             ELSE Frac(1, 4)
    ELSE Frac(1, 4)

GetDataIntervalHours ==
    /\ ret = NoCall
    /\ bat.pc = "constructed"
    /\ ret' = [op |-> "_get_data_interval_hours", out |-> _get_data_interval_hours(bat)]
    /\ UNCHANGED <<sim, hist, saved, bat, boil, mgr>>

NextSurplus ==
    \/ GetSurplusEnergy
    \/ GetDataIntervalHours

SpecSurplus == InitSurplus /\ [][NextSurplus]_vars

\* produced - consumed of every interval of the table of the calculator
Differences == [k \in 1..Len(bat.data) |-> bat.data[k].produced - bat.data[k].consumed]

HasBoth == {"Energy Produced (Wh)", "Energy Consumed (Wh)"} \subseteq bat.columns

\* C20 as stated: one value per interval, produced - consumed in Wh when the
\* two columns are there, and all zeros when they are absent
C20_ProducedMinusConsumed ==
    ret.op = "get_surplus_energy" =>
        /\ Len(ret.out) = Len(bat.data)
        /\ HasBoth => ret.out = Differences
        /\ ~HasBoth => \A k \in 1..Len(ret.out) : ret.out[k] = 0

\* C20, amended: a table that has a surplus_energy column gets that column
\* back as it is; without it the series is produced - consumed (in Wh,
\* possibly negative) when both columns are there and all zeros otherwise;
\* always one value per interval
C20_SurplusSeries ==
    ret.op = "get_surplus_energy" =>
        /\ Len(ret.out) = Len(bat.data)
        /\ "surplus_energy" \in bat.columns =>
              \A k \in 1..Len(ret.out) : ret.out[k] = bat.data[k].surplus_energy
        /\ ("surplus_energy" \notin bat.columns /\ HasBoth) => ret.out = Differences
        /\ ("surplus_energy" \notin bat.columns /\ ~HasBoth) =>
              \A k \in 1..Len(ret.out) : ret.out[k] = 0

\* the series of a table with the two energy columns only, with a deficit
\* and a surplus interval
C20_Witness ==
    /\ ret.op = "get_surplus_energy"
    /\ bat.columns = {"Energy Produced (Wh)", "Energy Consumed (Wh)"}
    /\ Len(ret.out) >= 2
    /\ \E j, k \in 1..Len(ret.out) : ret.out[j] = 0 - 500 /\ ret.out[k] = 1000

\* how many of the differences between consecutive timestamps of the table
\* of the calculator are d hours
Occurrences(d) ==
    Cardinality({k \in 1..(Len(bat.data) - 1) : bat.data[k + 1].ts - bat.data[k].ts = d})

\* C21: _get_data_interval_hours returns, in hours, a difference between
\* consecutive timestamps that no other difference occurs more often than,
\* and 0.25 h when the table has fewer than two rows or no Date/Time column
C21_MostFrequentDelta ==
    ret.op = "_get_data_interval_hours" =>
        IF "Date/Time" \in bat.columns /\ Len(bat.data) >= 2
        THEN \E d \in Deltas :
                /\ ret.out = <<d, 1>>
                /\ Occurrences(d) >= 1
                /\ \A e \in Deltas : Occurrences(e) <= Occurrences(d)
        ELSE ret.out = <<1, 4>>

\* a table whose first difference is a day and whose other two are an hour
C21_Witness ==
    /\ ret.op = "_get_data_interval_hours"
    /\ "Date/Time" \in bat.columns
    /\ Len(bat.data) = 4
    /\ bat.data[2].ts - bat.data[1].ts = 24
    /\ Occurrences(1) = 2
    /\ ret.out = <<1, 1>>

\* the attempts to load a path that were made
Attempts == {c \in {bat, boil} : c.pc = "no dataset"}

\* C22: load_data raises ValueError to its caller for a CSV file without a
\* required column and returns False for a path without a file; neither
\* stores a dataset
C22_LoadFailures ==
    \A a \in Attempts :
        /\ a.outcome.data_is_none
        /\ ~a.path.exists => a.outcome.raised = "nothing" /\ a.outcome.returned = FALSE
        /\ a.path.exists => a.outcome.raised = "ValueError"

----------------------------------------------------------------------------
(* config_manager.py : ConfigManager, and a caller that changes settings   *)
(* and then constructs a second manager on the same file.  A dictionary   *)
(* of sections is held as the set of its section names and the set of its *)
(* <<section, key, value>> items; a value is the text of a Python literal. *)

ConfigSections == {"battery", "test_section"}

ConfigKeys == {"capacity", "test_key"}

ConfigValues == {"10", "20", "(1, 2)"}

EmptyDict == [sections |-> {}, items |-> {}]

\* ConfigManager._get_default_config, cut down to one section with one key
_get_default_config == [sections |-> {"battery"}, items |-> {<<"battery", "capacity", "10">>}]

\* ConfigManager.get
get(config, section, key, default) ==
    IF section \notin config.sections THEN default
    ELSE IF \A i \in config.items : ~(i[1] = section /\ i[2] = key) THEN default
    ELSE (CHOOSE i \in config.items : i[1] = section /\ i[2] = key)[3]

\* yaml.dump / json.dump of the dictionary: a tuple is written with a Python
\* tag by yaml.dump and as an array by json.dump
dump(format, config) ==
    [exists   |-> TRUE,
     sections |-> config.sections,
     items    |-> {<<i[1], i[2],
                     IF i[3] # "(1, 2)" THEN i[3]
                     ELSE IF format = "yaml" THEN "!!python/tuple [1, 2]"
                     ELSE "[1, 2]">> : i \in config.items}]

\* ConfigManager._load_config : yaml.safe_load refuses a Python tag, and the
\* except clause then returns {}
_load_config(format, file) ==
    IF ~file.exists THEN EmptyDict
    ELSE IF format = "yaml" /\ \E i \in file.items : i[3] = "!!python/tuple [1, 2]"
    THEN EmptyDict
    ELSE [sections |-> file.sections, items |-> file.items]

\* ConfigManager.save_config
save_config(self) == [self EXCEPT !.file = dump(self.format, self.config), !.returned = "True"]

\* ConfigManager.__init__
ConfigManager(format, file) ==
    LET loaded  == _load_config(format, file)
        default == _get_default_config
        config  == IF loaded.sections = {}
                   THEN default
                   ELSE [sections |-> loaded.sections \cup default.sections,
                         items    |-> loaded.items \cup
                                        {i \in default.items : i[1] \notin loaded.sections}]
    IN  save_config([format |-> format, config |-> config, file |-> file,
                     returned |-> "nothing"])

\* config[section][key] = value for every pair of values, the section
\* created when missing
Assigned(config, section, values) ==
    [sections |-> config.sections \cup {section},
     items    |-> {i \in config.items :
                       ~(i[1] = section /\ \E kv \in values : kv[1] = i[2])}
                   \cup {<<section, kv[1], kv[2]>> : kv \in values}]

\* ConfigManager.set
set(self, section, key, value) ==
    IF get(self.config, section, key, "None") # value
    THEN save_config([self EXCEPT !.config = Assigned(@, section, {<<key, value>>})])
    ELSE [self EXCEPT !.config.sections = @ \cup {section}, !.returned = "True"]

\* ConfigManager.update_section
update_section(self, section, values) ==
    IF \E kv \in values : get(self.config, section, kv[1], "missing") # kv[2]
    THEN save_config([self EXCEPT !.config = Assigned(@, section, values)])
    ELSE [self EXCEPT !.config.sections = @ \cup {section}, !.returned = "True"]

\* slip: the key is deleted in memory and the file is not written
delete_NoSave(self, section, key) ==
    [self EXCEPT !.config.items = {i \in @ : ~(i[1] = section /\ i[2] = key)},
                 !.returned = "True"]

\* ConfigManager.delete
delete(self, section, key) ==
    IF get(self.config, section, key, "missing") # "missing"
    THEN save_config([self EXCEPT !.config.items =
                                     {i \in @ : ~(i[1] = section /\ i[2] = key)}])
    ELSE [self EXCEPT !.returned = "True"]

\* ConfigManager.delete_section
delete_section(self, section) ==
    IF section \in self.config.sections
    THEN save_config([self EXCEPT !.config.sections = @ \ {section},
                                  !.config.items = {i \in @ : i[1] # section}])
    ELSE [self EXCEPT !.returned = "True"]

\* ConfigManager.reset_to_defaults
reset_to_defaults(self) == save_config([self EXCEPT !.config = _get_default_config])

\* the values argument of update_section: a dictionary of one or two keys
ValueDicts ==
    {d \in SUBSET (ConfigKeys \X ConfigValues) :
        /\ d # {}
        /\ \A a, b \in d : a[1] = b[1] => a = b}

\* what the caller expects get(section, key, "default") to return after the
\* calls made so far: the last value set, the default configuration after a
\* reset, "default" for a key that was never set or was deleted
ExpectedAtStart ==
    [sk \in ConfigSections \X ConfigKeys |->
        get(_get_default_config, sk[1], sk[2], "default")]

\* the first manager is constructed on a path without a file
InitConfig ==
    /\ sim = NoSimulation
    /\ ret = NoCall
    /\ hist = <<>>
    /\ saved = NoRun
    /\ bat = NoCalculator
    /\ boil = NoCalculator
    /\ \E format \in {"yaml", "json"} :
          mgr = [pc       |-> "open",
                 self     |-> ConfigManager(format, [exists |-> FALSE]),
                 expected |-> ExpectedAtStart,
                 second   |-> NoManager]

Set ==
    /\ mgr.pc = "open"
    /\ \E section \in ConfigSections, key \in ConfigKeys, value \in ConfigValues :
          mgr' = [mgr EXCEPT !.self = set(@, section, key, value),
                             !.expected[<<section, key>>] = value]
    /\ UNCHANGED <<sim, ret, hist, saved, bat, boil>>

UpdateSection ==
    /\ mgr.pc = "open"
    /\ \E section \in ConfigSections, values \in ValueDicts :
          mgr' = [mgr EXCEPT !.self = update_section(@, section, values),
                             !.expected =
                                 [sk \in DOMAIN @ |->
                                     IF sk[1] = section /\ \E kv \in values : kv[1] = sk[2]
                                     THEN (CHOOSE kv \in values : kv[1] = sk[2])[2]
                                     ELSE @[sk]]]
    /\ UNCHANGED <<sim, ret, hist, saved, bat, boil>>

Delete ==
    /\ mgr.pc = "open"
    /\ \E section \in ConfigSections, key \in ConfigKeys :
          mgr' = [mgr EXCEPT !.self = delete(@, section, key),
                             !.expected[<<section, key>>] = "default"]
    /\ UNCHANGED <<sim, ret, hist, saved, bat, boil>>

DeleteSection ==
    /\ mgr.pc = "open"
    /\ \E section \in ConfigSections :
          mgr' = [mgr EXCEPT !.self = delete_section(@, section),
                             !.expected =
                                 [sk \in DOMAIN @ |->
                                     IF sk[1] = section THEN "default" ELSE @[sk]]]
    /\ UNCHANGED <<sim, ret, hist, saved, bat, boil>>

ResetToDefaults ==
    /\ mgr.pc = "open"
    /\ mgr' = [mgr EXCEPT !.self = reset_to_defaults(@), !.expected = ExpectedAtStart]
    /\ UNCHANGED <<sim, ret, hist, saved, bat, boil>>

\* ConfigManager(config_file) once more on the same path; its constructor
\* writes the file again
Reopen ==
    /\ mgr.pc = "open"
    /\ LET second == ConfigManager(mgr.self.format, mgr.self.file)
       IN  mgr' = [mgr EXCEPT !.pc = "reopened", !.second = second,
                              !.self.file = second.file]
    /\ UNCHANGED <<sim, ret, hist, saved, bat, boil>>

NextConfig ==
    \/ Set
    \/ UpdateSection
    \/ Delete
    \/ DeleteSection
    \/ ResetToDefaults
    \/ Reopen

SpecConfig == InitConfig /\ [][NextConfig]_vars

\* get(section, key, "default") on the first manager
First(section, key) == get(mgr.self.config, section, key, "default")

\* get(section, key, "default") on the manager constructed afterwards
Second(section, key) == get(mgr.second.config, section, key, "default")

HasTuple == \E i \in mgr.self.config.items : i[3] = "(1, 2)"

----------------------------------------------------------------------------
(* Properties of the passes of BoilerCalculator.calculate, under SpecBoiler *)

\* the temperature the standby loss alone leaves of before_temp
StandbyOnly(before_temp) ==
    FMax(FSub(before_temp, StandbyDrop(before_temp)), <<boil.config.cold_water_temp, 1>>)

\* C24: the draw-off of an interval lowers the stored heat before the standby
\* loss and the heating are applied, and the recorded temperature shows it: in
\* an interval with draw-off in which no surplus energy is used, the recorded
\* temperature is below what the standby loss alone leaves, as long as that
\* is above the cold-inlet temperature
C24_DrawOffLowersHeat ==
    \A k \in 1..Len(boil.rows) :
        LET row == boil.rows[k]
        IN  (/\ boil.config.capacity > 0
             /\ FLt(FZero, row.hot_water_demand_l)
             /\ row.energy_used_kwh = FZero
             /\ FLt(<<boil.config.cold_water_temp, 1>>, StandbyOnly(row.before_temp)))
                => FLt(row.water_temp, StandbyOnly(row.before_temp))

\* the energy needed for the draw-off of a recorded interval (0 without one)
NeededOf(row) == IF row.energy_needed_kwh.bound THEN row.energy_needed_kwh.value ELSE FZero

\* the first part of the energy used: min(max(surplus, 0), energy needed)
ForDrawOff(row) == FMin(FMax(row.surplus_energy_kwh, FZero), NeededOf(row))

\* volume x 0.00116
TankHeatCapacity == <<boil.config.capacity * 29, 25000>>

MaxTemperature == <<boil.config.cold_water_temp + boil.config.water_temperature_rise, 1>>

\* the second part: when surplus remains and the water, after the standby
\* loss, is below max, min(remaining surplus, energy to bring the tank to max)
ForTank(row) ==
    IF FLt(ForDrawOff(row), row.surplus_energy_kwh) /\ FLt(row.cooled_temp, MaxTemperature)
    THEN FMin(FSub(row.surplus_energy_kwh, ForDrawOff(row)),
              FMul(TankHeatCapacity, FSub(MaxTemperature, row.cooled_temp)))
    ELSE FZero

C26_CompletesWithoutError == boil.pc # "raised"

----------------------------------------------------------------------------
(* BoilerCalculator.calculate on hourly series with a gap: three rows that *)
(* start in the morning draw-off hours, one or two hours apart             *)

\* <<Energy Produced (Wh), Energy Consumed (Wh)>> of a row
GapReadings == {<<1500, 500>>, <<1000, 500>>}

GapTables ==
    {<<[ts |-> h,           produced |-> a[1], consumed |-> a[2], label |-> 1],
       [ts |-> h + d,       produced |-> b[1], consumed |-> b[2], label |-> 2],
       [ts |-> h + d + e,   produced |-> c[1], consumed |-> c[2], label |-> 3]>> :
        h \in {7, 8}, d \in {1, 2}, e \in {1, 2},
        a \in GapReadings, b \in GapReadings, c \in GapReadings}

InitGaps ==
    /\ sim = NoSimulation
    /\ ret = NoCall
    /\ hist = <<>>
    /\ saved = NoRun
    /\ mgr = NoManager
    /\ bat = NoCalculator
    /\ \E data \in GapTables : boil = BoilerCalculator(data, FileBoilerConfig)

SpecGaps == InitGaps /\ [][NextBoiler]_vars

RECURSIVE RunTo(_, _)
\* the frame of calculate() on a calculator after n passes of the loop (the
\* tables above start in an hour with draw-off, so no pass raises)
RunTo(calc, n) ==
    IF n = 0
    THEN [calc EXCEPT !.pc = "loop", !.i = 1,
                      !.interval = boiler_data_interval_hours(calc.data),
                      !.water_temp = _get_cold_water_temp(calc)]
    ELSE LET before == RunTo(calc, n - 1)
         IN  [before EXCEPT
                  !.i = n + 1,
                  !.water_temp = FinalTemp(before, BoilerPass(before, Loc(before.data, n))),
                  !.energy_needed_with_efficiency =
                      BoilerPass(before, Loc(before.data, n)).needed_eff,
                  !.rows = Append(before.rows,
                                  BoilerRow(before, BoilerPass(before, Loc(before.data, n))))]

\* the rows of the run of calculate() on another table, same configuration
OtherRun(data) == RunTo(BoilerCalculator(data, boil.config), Len(data))

\* C27: two runs that agree, for an interval, on the temperature before the
\* step, the hour, the duration, the surplus and the parameters record the
\* same temperature after the step, whatever their earlier intervals were
C27_PostStepDependsOnIntervalOnly ==
    boil.pc = "returned" =>
        \A data \in GapTables :
            OtherRun(data).interval = boil.interval =>
                \A j \in 1..Len(data), k \in 1..Len(boil.rows) :
                    (/\ OtherRun(data).rows[j].before_temp = boil.rows[k].before_temp
                     /\ OtherRun(data).rows[j].hour_of_day = boil.rows[k].hour_of_day
                     /\ OtherRun(data).rows[j].surplus_energy_kwh
                           = boil.rows[k].surplus_energy_kwh)
                        => OtherRun(data).rows[j].water_temp = boil.rows[k].water_temp

\* the heat energy content recorded before interval k of the run in boil:
\* that of the row before, and 0 (cold water) before the first row
HeatBefore(k) == IF k = 1 THEN FZero ELSE boil.rows[k - 1].heat_energy_kwh

\* C28: from one row to the next the recorded heat energy content rises by
\* no more than the energy used recorded for the interval
C28_NoHeatWithoutSurplus ==
    \A k \in 1..Len(boil.rows) :
        FLe(FSub(boil.rows[k].heat_energy_kwh, HeatBefore(k)), boil.rows[k].energy_used_kwh)

----------------------------------------------------------------------------
(* The utilization percentages of both calculators                         *)

\* a battery percentage a x 100 / b that lies between 0 and 100
BatteryPercentInRange(q) ==
    /\ q.kind = "num"
    /\ IF q.dens[1] > 0
       THEN 0 <= q.nums[1] /\ q.nums[1] <= q.dens[1]
       ELSE q.dens[1] <= q.nums[1] /\ q.nums[1] <= 0

\* a boiler percentage that lies between 0 and 100
BoilerPercentInRange(x) == FLe(FZero, x) /\ FLe(x, <<100, 1>>)

\* C29: the utilization percentage of the battery and of the boiler result,
\* overall and in every aggregated period, lies between 0 and 100
C29_UtilizationWithinPercent ==
    /\ (bat.pc = "returned" /\ bat.results # None) =>
          /\ BatteryPercentInRange(bat.results.storage_utilization_percent)
          /\ \A r \in PeriodRows(bat.results) : BatteryPercentInRange(r.storage_utilization)
    /\ (boil.pc = "returned" /\ boil.results # None) =>
          /\ BoilerPercentInRange(boil.results.surplus_utilization_percent)
          /\ \A r \in PeriodRows(boil.results) : BoilerPercentInRange(r.surplus_utilization)

----------------------------------------------------------------------------
(* A caller that calls calculate() a second time on the same calculator    *)

\* what the caller keeps of a call of calculate() that ended
Outcome(calc, final) ==
    [made    |-> TRUE,
     series  |-> calc.rows,
     results |-> calc.results,
     raised  |-> calc.raised,
     final   |-> final]

InitRerun ==
    /\ sim = NoSimulation
    /\ ret = NoCall
    /\ hist = <<>>
    /\ saved = NoRun
    /\ mgr = NoManager
    /\ \/ \E data \in Tables :
             bat = BatteryCalculator(data, FileBatteryConfig) /\ boil = NoCalculator
       \/ \E data \in BoilerTables :
             boil = BoilerCalculator(data, FileBoilerConfig) /\ bat = NoCalculator

\* calculate() once more on a battery calculator whose call ended
CalculateAgain ==
    /\ bat.pc \in {"returned", "raised"}
    /\ saved = NoRun
    /\ saved' = Outcome(bat, bat.battery_sim)
    /\ bat' = battery_calculate_enter(bat)
    /\ UNCHANGED <<sim, ret, hist, boil, mgr>>

\* calculate() once more on a boiler calculator whose call ended
BoilerAgain ==
    /\ boil.pc \in {"returned", "raised"}
    /\ saved = NoRun
    /\ saved' = Outcome(boil, boil.water_temp)
    /\ boil' = boiler_calculate_enter(boil)
    /\ UNCHANGED <<sim, ret, hist, bat, mgr>>

NextRerun ==
    \/ CalculateEnter
    \/ CalculateRow
    \/ CalculateFinish
    \/ CalculateAgain
    \/ BoilerEnter
    \/ BoilerPassStep
    \/ BoilerFinish
    \/ BoilerAgain

SpecRerun == InitRerun /\ [][NextRerun]_vars

\* the second call has ended
Ended(calc) == saved.made /\ calc.pc \in {"returned", "raised"}

\* C30: a second call of calculate() on the same calculator and data starts
\* from the initial state (charge at the min bound, totals zero, water at the
\* cold-inlet temperature, an empty table) and ends with the same rows, the
\* same result and the same final state as the first call
C30_SecondRunIdentical ==
    /\ (saved.made /\ bat.pc = "loop" /\ bat.i = 1) =>
          /\ bat.rows = <<>>
          /\ bat.battery_sim.state_of_charge = bat.battery_sim.min_soc_kwh
          /\ bat.battery_sim.charged_energy = 0
          /\ bat.battery_sim.discharged_energy = 0
          /\ bat.battery_sim.wasted_energy = 0
    /\ (saved.made /\ boil.pc = "loop" /\ boil.i = 1) =>
          /\ boil.rows = <<>>
          /\ boil.water_temp = <<boil.config.cold_water_temp, 1>>
    /\ Ended(bat) =>
          /\ bat.rows = saved.series
          /\ bat.results = saved.results
          /\ bat.raised = saved.raised
          /\ bat.battery_sim = saved.final
    /\ Ended(boil) =>
          /\ boil.rows = saved.series
          /\ boil.results = saved.results
          /\ boil.raised = saved.raised
          /\ boil.water_temp = saved.final

\* a second battery run that charged and discharged, ended
C30_Witness ==
    /\ Ended(bat)
    /\ bat.pc = "returned"
    /\ Len(bat.rows) = 3
    /\ bat.battery_sim.charged_energy > 0
    /\ bat.battery_sim.discharged_energy > 0
    /\ bat.results = saved.results

====
